---- MODULE Spec2Model ----
(***************************************************************************)
(* A model of the prepared statement of the DuckDB driver (statement.go):  *)
(* the Stmt state machine (bound / rows / closed), and the cancellable     *)
(* pending -> execute protocol of Stmt.executeBound with its watcher       *)
(* goroutine.  One statement on one connection; the caller uses the        *)
(* statement from one goroutine, so an entry point is only called while no *)
(* other call on the statement is in progress (pc = "idle").               *)
(***************************************************************************)
EXTENDS Integers, Sequences, FiniteSets, TLC

\* Number of executeBound calls a behaviour may start.
MaxExec == 2
\* Number of parameters of the prepared query, as apiNParams reports it.
NParams == 1
\* Longest argument list handed to Bind / ExecContext / QueryContext: one
\* argument more than the query has parameters.
MaxArgs == NParams + 1
\* GetDataChunkCapacity(): the rows a data chunk holds (2048 in the engine).
Capacity == 2
\* Number of data chunks an appender may create in a behaviour.
MaxChunks == 3
\* The column names of the table the appender appends to.
columnNames == <<"bar", "baz">>

VARIABLES
    preparedStmt,  \* Stmt.preparedStmt: "nil", "live" or "destroyed" (engine side)
    bound,         \* Stmt.bound
    closed,        \* Stmt.closed
    rows,          \* Stmt.rows
    destroyCount,  \* how often apiDestroyPrepare destroyed the prepared handle
    badCalls,      \* engine calls made on the prepared handle after its destruction
    pc,            \* position of the calling goroutine inside executeBound
    cur,           \* the entry point whose executeBound is in progress
    execId,        \* number of executeBound calls started so far
    ctxKind,       \* per execution: "none", "background" or "cancel"
    ctxDone,       \* per execution: ctx.Done() is closed (ctx.Err() != nil)
    pendingRes,    \* per execution: the pending-result handle
    resState,      \* per execution: the apiResult handle
    mainDoneCh,    \* per execution: "nil", "open" or "closed"
    bgDoneCh,      \* per execution: "nil", "open" or "closed"
    bg,            \* per execution: position of the watcher goroutine
    state,         \* apiState returned by apiExecutePending of the current call
    cause,         \* why that execute-pending call failed
    interrupts,    \* the apiInterrupt calls made on the connection
    rowsOf,        \* execution whose result the open cursor owns (0: none)
    trace,         \* engine calls made by the calling goroutine in the latest call
    ret,           \* what the latest call returned (or the panic it raised)
    namedArgs,     \* the argument list the caller hands to Bind (SpecBind)
    paramTypes,    \* per parameter: the type apiParamType reports (SpecBind)
    aClosed,       \* Appender.closed
    appender,      \* Appender.appender, the native handle: "live" or "destroyed"
    chunks,        \* Appender.chunks: per buffered chunk its id and its rows
    rowCount,      \* Appender.rowCount
    activeColumns, \* Appender.activeColumns
    chunkMem,      \* per chunk id: the native memory of the chunk
    created,       \* number of chunks created so far
    appended,      \* appends since the buffer was last emptied: ok, failed
    types,         \* Appender.types: per column the native logical type
    history,       \* while no call has failed: the appends that succeeded, the
                   \* chunk and row each of them wrote, and the chunks the
                   \* engine took, all since NewAppender
    rowArg,        \* the argument of the latest append on the open appender:
                   \* the number of values (AppendRow) or the keys (AppendRowMap)
    selected,      \* the column selection the engine holds for the appender:
                   \* the columns added since the last clear, in their order
    driverConn,    \* the driver.Conn handed to NewAppender (SpecNew)
    tableTypes,    \* per column of the table: the type the engine reports (SpecNew)
    tableDesc      \* the table description NewAppender creates (SpecNew)

vars == <<preparedStmt, bound, closed, rows, destroyCount, badCalls, pc, cur,
          execId, ctxKind, ctxDone, pendingRes, resState, mainDoneCh, bgDoneCh,
          bg, state, cause, interrupts, rowsOf, trace, ret, namedArgs, paramTypes,
          aClosed, appender, chunks, rowCount, activeColumns, chunkMem, created,
          appended, types, history, rowArg, selected, driverConn, tableTypes,
          tableDesc>>

stmtVars == <<preparedStmt, bound, closed, rows, destroyCount>>
execVars == <<pc, cur, execId, ctxKind, ctxDone, pendingRes, resState,
              mainDoneCh, bgDoneCh, bg, state, cause, interrupts, rowsOf>>
\* The variables of the other specifications, which Spec leaves alone.
bindVars == <<namedArgs, paramTypes>>
appVars == <<aClosed, appender, chunks, rowCount, activeColumns, chunkMem, created,
             appended, types, history, rowArg, selected>>
newVars == <<driverConn, tableTypes, tableDesc>>
auxVars == <<bindVars, appVars, newVars>>

Execs == 1..MaxExec

\* The contexts a caller passes: context.Background(), which is never
\* cancelled, and a context that can be cancelled at any later moment
\* (CancelCtx), also before the watcher or the engine has taken a step.
CtxChoices == {"background", "cancel"}

\* An argument, by what binding it does: the engine accepts it, the codec
\* rejects it (no engine bind call is made), or the engine's bind call fails.
ArgClasses == {"good", "badCodec", "badEngine"}

RECURSIVE SeqsUpTo(_, _)
SeqsUpTo(S, n) ==
    IF n = 0 THEN {<<>>}
    ELSE LET shorter == SeqsUpTo(S, n - 1)
         IN  shorter \cup {Append(s, x) : s \in {t \in shorter : Len(t) = n - 1}, x \in S}

ArgLists == SeqsUpTo(ArgClasses, MaxArgs)

\* Engine entry points that take the prepared-statement handle.
PreparedApis == {"NParams", "ParameterName", "ParamType", "PreparedStatementType",
                 "BindValue", "PrepareError", "PendingPrepared", "DestroyPrepare"}

Range(s) == {s[i] : i \in 1..Len(s)}

\* The calls of tr that reach the engine with the handle already destroyed.
BadIn(tr) == IF preparedStmt = "destroyed" THEN Range(tr) \cap PreparedApis ELSE {}

Result(call, val, err, pan) == [call |-> call, val |-> val, err |-> err, panic |-> pan]

InitStmt ==
    /\ preparedStmt \in {"live", "nil"}
    /\ bound = FALSE
    /\ closed = FALSE
    /\ rows = FALSE
    /\ destroyCount = 0
    /\ badCalls = {}
    /\ pc = "idle"
    /\ cur = "none"
    /\ execId = 0
    /\ ctxKind = [k \in Execs |-> "none"]
    /\ ctxDone = [k \in Execs |-> FALSE]
    /\ pendingRes = [k \in Execs |-> "none"]
    /\ resState = [k \in Execs |-> "none"]
    /\ mainDoneCh = [k \in Execs |-> "nil"]
    /\ bgDoneCh = [k \in Execs |-> "nil"]
    /\ bg = [k \in Execs |-> "none"]
    /\ state = "none"
    /\ cause = "none"
    /\ interrupts = {}
    /\ rowsOf = 0
    /\ trace = <<>>
    /\ ret = Result("none", "nil", {}, "")

\* The argument of an append: n values (-1: a map) or a map with the keys.
RowArg(n, keys) == [n |-> n, keys |-> keys]
NoRow == RowArg(-1, {})

\* The Appender NewAppender returns: no chunk buffered, every column active.
InitAppender ==
    /\ aClosed = FALSE
    /\ appender = "live"
    /\ chunks = <<>>
    /\ rowCount = 0
    /\ activeColumns = [i \in 1..Len(columnNames) |-> TRUE]
    /\ chunkMem = [k \in 1..MaxChunks |-> "none"]
    /\ created = 0
    /\ appended = [ok |-> 0, failed |-> FALSE]
    /\ types = [i \in 1..Len(columnNames) |-> "live"]
    /\ selected = [i \in 1..Len(columnNames) |-> i]
    /\ history = [appends |-> 0, slots |-> <<>>, handed |-> <<>>, failed |-> FALSE]
    /\ rowArg = NoRow
    /\ driverConn = "open"
    /\ tableTypes = [i \in 1..Len(columnNames) |-> "INTEGER"]
    /\ tableDesc = "destroyed"

\* Spec passes Bind its arguments by what binding them does (ArgClasses) and
\* leaves the detailed argument list and the parameter types empty.
Init ==
    /\ InitStmt
    /\ namedArgs = <<>>
    /\ paramTypes = <<>>
    /\ InitAppender

\* A call that returns (or panics) without starting an execution: it leaves
\* the execution state alone and reports val/err/pan after the engine calls tr.
Return(call, val, err, pan, tr) ==
    /\ ret' = Result(call, val, err, pan)
    /\ trace' = tr
    /\ badCalls' = badCalls \cup BadIn(tr)
    /\ UNCHANGED execVars

----
\* Close without the test of s.closed.
CloseNoDoubleCheck ==
    /\ pc = "idle"
    /\ IF rows
       THEN /\ Return("Close", "nil", {}, "CloseWithActiveRows", <<>>)
            /\ UNCHANGED stmtVars
       ELSE IF preparedStmt = "nil"
       THEN /\ closed' = TRUE
            /\ \E pan \in {"", "nilDeref"} : Return("Close", "nil", {}, pan, <<>>)
            /\ UNCHANGED <<preparedStmt, bound, rows, destroyCount>>
       ELSE /\ closed' = TRUE
            /\ preparedStmt' = "destroyed"
            /\ destroyCount' = destroyCount + 1
            /\ Return("Close", "nil", {}, "", <<"DestroyPrepare">>)
            /\ UNCHANGED <<bound, rows>>

\* Close without the test of s.rows.
CloseWithActiveRows ==
    /\ pc = "idle"
    /\ IF closed
       THEN /\ Return("Close", "nil", {}, "DoubleClose", <<>>)
            /\ UNCHANGED stmtVars
       ELSE /\ closed' = TRUE
            /\ preparedStmt' = IF preparedStmt = "nil" THEN "nil" ELSE "destroyed"
            /\ destroyCount' = IF preparedStmt = "nil" THEN destroyCount ELSE destroyCount + 1
            /\ Return("Close", "nil", {}, "", <<"DestroyPrepare">>)
            /\ UNCHANGED <<bound, rows>>

\* Stmt.Close
Close ==
    /\ pc = "idle"
    /\ IF rows
       THEN /\ Return("Close", "nil", {}, "CloseWithActiveRows", <<>>)
            /\ UNCHANGED stmtVars
       ELSE IF closed
       THEN /\ Return("Close", "nil", {}, "DoubleClose", <<>>)
            /\ UNCHANGED stmtVars
       ELSE IF preparedStmt = "nil"
       THEN \* apiDestroyPrepare(nil): nothing is destroyed; the binding either
            \* tolerates the nil handle or dereferences it.
            /\ closed' = TRUE
            /\ \E pan \in {"", "nilDeref"} : Return("Close", "nil", {}, pan, <<>>)
            /\ UNCHANGED <<preparedStmt, bound, rows, destroyCount>>
       ELSE /\ closed' = TRUE
            /\ preparedStmt' = "destroyed"
            /\ destroyCount' = destroyCount + 1
            /\ Return("Close", "nil", {}, "", <<"DestroyPrepare">>)
            /\ UNCHANGED <<bound, rows>>

\* Stmt.NumInput
NumInput ==
    /\ pc = "idle"
    /\ IF closed
       THEN Return("NumInput", "nil", {}, "NumInputAfterClose", <<>>)
       ELSE IF preparedStmt = "nil"
       THEN Return("NumInput", "nil", {}, "nilDeref", <<>>)
       ELSE Return("NumInput", "count", {}, "", <<"NParams">>)
    /\ UNCHANGED stmtVars

\* The indexes (an int) ParamName and ParamType are called with: below, in
\* and above the range of the parameters.
ParamIndexes == (-1)..(NParams + 1)

\* The guard of ParamName and ParamType: n == 0 || n > int(count).
paramIndexBad(n) == n = 0 \/ n > NParams

\* Stmt.ParamName
ParamName(n) ==
    /\ pc = "idle"
    /\ IF closed
       THEN Return("ParamName", "zero", {"errClosedStmt"}, "", <<>>)
       ELSE IF preparedStmt = "nil"
       THEN Return("ParamName", "zero", {"errUninitializedStmt"}, "", <<>>)
       ELSE IF paramIndexBad(n)
       THEN Return("ParamName", "zero", {"errAPI", "paramIndexError"}, "", <<"NParams">>)
       ELSE Return("ParamName", "name", {}, "", <<"NParams", "ParameterName">>)
    /\ UNCHANGED stmtVars

\* Stmt.ParamType
ParamType(n) ==
    /\ pc = "idle"
    /\ IF closed
       THEN Return("ParamType", "zero", {"errClosedStmt"}, "", <<>>)
       ELSE IF preparedStmt = "nil"
       THEN Return("ParamType", "zero", {"errUninitializedStmt"}, "", <<>>)
       ELSE IF paramIndexBad(n)
       THEN Return("ParamType", "zero", {"errAPI", "paramIndexError"}, "", <<"NParams">>)
       ELSE Return("ParamType", "type", {}, "", <<"NParams", "ParamType">>)
    /\ UNCHANGED stmtVars

\* StatementType with the test of s.preparedStmt before the test of s.closed.
StatementTypeNilCheckFirst ==
    /\ pc = "idle"
    /\ IF preparedStmt = "nil"
       THEN Return("StatementType", "zero", {"errUninitializedStmt"}, "", <<>>)
       ELSE IF closed
       THEN Return("StatementType", "zero", {"errClosedStmt"}, "", <<>>)
       ELSE Return("StatementType", "type", {}, "", <<"PreparedStatementType">>)
    /\ UNCHANGED stmtVars

\* Stmt.StatementType
StatementType ==
    /\ pc = "idle"
    /\ IF closed
       THEN Return("StatementType", "zero", {"errClosedStmt"}, "", <<>>)
       ELSE IF preparedStmt = "nil"
       THEN Return("StatementType", "zero", {"errUninitializedStmt"}, "", <<>>)
       ELSE Return("StatementType", "type", {}, "", <<"PreparedStatementType">>)
    /\ UNCHANGED stmtVars


----
\* Destroying a native handle: a handle is destroyed once; a second destroy
\* (or the destroy of a handle that was never created) is a double free.
Destroy(h) == IF h \in {"live", "error"} THEN "destroyed" ELSE "doubleDestroyed"

\* Stmt.bindValue / Stmt.bindComplexValue for parameter i of args: the engine
\* calls made and the error identities of a failure.
bindValue(arg) ==
    CASE arg = "good"      -> [ok |-> TRUE, err |-> {}, tr |-> <<"BindValue">>]
      [] arg = "badEngine" -> [ok |-> FALSE, err |-> {}, tr |-> <<"BindValue">>]
      [] arg = "badCodec"  -> [ok |-> FALSE, err |-> {"unsupportedType"},
                               tr |-> <<"NParams", "ParamType">>]

\* The loop of Stmt.bind from parameter i (1-based) on.
RECURSIVE bindLoop(_, _)
bindLoop(args, i) ==
    IF i > NParams
    THEN [ok |-> TRUE, err |-> {}, tr |-> <<"NParams">>, n |-> 0]
    ELSE LET v == bindValue(args[i])
             head == <<"NParams", "ParameterName">> \o v.tr
         IN  IF ~v.ok
             THEN [ok |-> FALSE,
                   err |-> {"errCouldNotBind", "duckdbErr"} \cup v.err,
                   tr |-> head \o <<"PrepareError">>, n |-> 0]
             ELSE LET rest == bindLoop(args, i + 1)
                  IN  [ok |-> rest.ok, err |-> rest.err, tr |-> head \o rest.tr,
                       n |-> rest.n + 1]

\* Stmt.bind: ok, the error identities, the engine calls, the parameters bound.
bind(args) ==
    IF NParams > Len(args)
    THEN [ok |-> FALSE, err |-> {"argCount"}, tr |-> <<"NParams", "NParams">>, n |-> 0]
    ELSE LET l == bindLoop(args, 1)
         IN  [l EXCEPT !.tr = <<"NParams">> \o l.tr]

\* Stmt.Bind
Bind(args) ==
    /\ pc = "idle"
    /\ IF closed
       THEN /\ Return("Bind", "nil", {"errCouldNotBind", "errClosedStmt"}, "", <<>>)
            /\ UNCHANGED stmtVars
       ELSE IF preparedStmt = "nil"
       THEN /\ Return("Bind", "nil", {"errCouldNotBind", "errUninitializedStmt"}, "", <<>>)
            /\ UNCHANGED stmtVars
       ELSE LET b == bind(args)
            IN  /\ Return("Bind", "nil", b.err, "", b.tr)
                /\ bound' = IF b.ok THEN TRUE ELSE bound
                /\ UNCHANGED <<preparedStmt, closed, rows, destroyCount>>

----
\* pendingFailed with the handle destroyed before its error text is read.
pendingFailedDestroyFirst(k, call, tr) ==
    /\ trace' = tr \o <<"PendingPrepared", "DestroyPending", "PendingError">>
    /\ pendingRes' = [pendingRes EXCEPT ![k] = Destroy("error")]
    /\ ret' = Result(call, "nil", {"duckdbErr"}, "")
    /\ UNCHANGED <<pc, cur, mainDoneCh, bgDoneCh, bg>>

\* executeBound, lines 394-400: apiPendingPrepared failed for execution k.
\* The error text is read, the pending handle destroyed, and the call returns.
pendingFailed(k, call, tr) ==
    /\ trace' = tr \o <<"PendingPrepared", "PendingError", "DestroyPending">>
    /\ pendingRes' = [pendingRes EXCEPT ![k] = Destroy("error")]
    /\ ret' = Result(call, "nil", {"duckdbErr"}, "")
    /\ UNCHANGED <<pc, cur, mainDoneCh, bgDoneCh, bg>>

\* executeBound, lines 401-415: the pending result exists; its destruction is
\* deferred, the two channels are made and the watcher goroutine is started.
spawnWatcher(k, call, tr) ==
    /\ trace' = tr \o <<"PendingPrepared">>
    /\ pendingRes' = [pendingRes EXCEPT ![k] = "live"]
    /\ mainDoneCh' = [mainDoneCh EXCEPT ![k] = "open"]
    /\ bgDoneCh' = [bgDoneCh EXCEPT ![k] = "open"]
    /\ bg' = [bg EXCEPT ![k] = "select"]
    /\ pc' = "execute"
    /\ cur' = call
    /\ ret' = Result(call, "pending", {}, "")

\* The start of Stmt.executeBound for entry point call with context c, after
\* the engine calls tr the entry point already made.
executeBound(call, c, tr) ==
    LET k == execId + 1
    IN  /\ execId < MaxExec
        /\ execId' = k
        /\ ctxKind' = [ctxKind EXCEPT ![k] = c]
        /\ UNCHANGED ctxDone
        /\ state' = "none"
        /\ cause' = "none"
        /\ badCalls' = badCalls \cup BadIn(tr \o <<"PendingPrepared">>)
        /\ \/ pendingFailed(k, call, tr)
           \/ spawnWatcher(k, call, tr)
        /\ UNCHANGED <<resState, interrupts, rowsOf>>

\* execute without the test of s.rows.
executeNoRowsCheck(call) ==
    /\ pc = "idle"
    /\ IF closed
       THEN /\ Return(call, "nil", {}, "AfterClose", <<>>)
            /\ UNCHANGED stmtVars
       ELSE IF preparedStmt = "nil"
       THEN /\ Return(call, "nil", {}, "nilDeref", <<>>)
            /\ UNCHANGED stmtVars
       ELSE \E c \in CtxChoices, args \in ArgLists :
              LET b == bind(args)
              IN  IF ~b.ok
                  THEN /\ Return(call, "nil", b.err, "", b.tr)
                       /\ UNCHANGED stmtVars
                  ELSE /\ executeBound(call, c, b.tr)
                       /\ bound' = TRUE
                       /\ UNCHANGED <<preparedStmt, closed, rows, destroyCount>>

\* Stmt.execute, then ExecContext / QueryContext up to the watcher's start.
execute(call) ==
    /\ pc = "idle"
    /\ IF closed
       THEN /\ Return(call, "nil", {}, "AfterClose", <<>>)
            /\ UNCHANGED stmtVars
       ELSE IF rows
       THEN /\ Return(call, "nil", {}, "WithActiveRows", <<>>)
            /\ UNCHANGED stmtVars
       ELSE IF preparedStmt = "nil"
       THEN \* s.bind calls NumInput, which dereferences the nil handle.
            /\ Return(call, "nil", {}, "nilDeref", <<>>)
            /\ UNCHANGED stmtVars
       ELSE \E c \in CtxChoices, args \in ArgLists :
              LET b == bind(args)
              IN  IF ~b.ok
                  THEN /\ Return(call, "nil", b.err, "", b.tr)
                       /\ UNCHANGED stmtVars
                  ELSE /\ executeBound(call, c, b.tr)
                       /\ bound' = TRUE
                       /\ UNCHANGED <<preparedStmt, closed, rows, destroyCount>>

\* Stmt.ExecContext
ExecContext == execute("ExecContext")

\* Stmt.QueryContext
QueryContext == execute("QueryContext")

\* boundGuard without the test of s.closed.
boundGuardNoClosedCheck(call) ==
    /\ pc = "idle"
    /\ IF rows
       THEN Return(call, "nil", {"errActiveRows"}, "", <<>>)
       ELSE IF ~bound
       THEN Return(call, "nil", {"errNotBound"}, "", <<>>)
       ELSE \E c \in CtxChoices : executeBound(call, c, <<>>)
    /\ UNCHANGED stmtVars

\* boundGuard without the test of s.rows.
boundGuardNoRowsCheck(call) ==
    /\ pc = "idle"
    /\ IF closed
       THEN Return(call, "nil", {"errClosedCon"}, "", <<>>)
       ELSE IF ~bound
       THEN Return(call, "nil", {"errNotBound"}, "", <<>>)
       ELSE \E c \in CtxChoices : executeBound(call, c, <<>>)
    /\ UNCHANGED stmtVars

\* The checks ExecBound and QueryBound make before they call executeBound.
boundGuard(call) ==
    /\ pc = "idle"
    /\ IF closed
       THEN Return(call, "nil", {"errClosedCon"}, "", <<>>)
       ELSE IF rows
       THEN Return(call, "nil", {"errActiveRows"}, "", <<>>)
       ELSE IF ~bound
       THEN Return(call, "nil", {"errNotBound"}, "", <<>>)
       ELSE \E c \in CtxChoices : executeBound(call, c, <<>>)
    /\ UNCHANGED stmtVars

\* Stmt.ExecBound
ExecBound == boundGuard("ExecBound")

\* Stmt.QueryBound
QueryBound == boundGuard("QueryBound")

----
\* The execution whose executeBound call is in progress (0: none).
Active == IF pc = "idle" THEN 0 ELSE execId

\* The outcomes the engine's execute-pending call can have for execution k:
\* it succeeds, it fails on its own, or, once an interrupt was delivered to
\* the connection during the call, it unwinds with an error.
ExecuteOutcomes(k) ==
    {"success", "engine"}
        \cup (IF \E i \in interrupts : i.during = k THEN {"interrupt"} ELSE {})

\* executeBound, lines 417-418: apiExecutePending returns.
ExecutePending ==
    /\ pc = "execute"
    /\ \E o \in ExecuteOutcomes(execId) :
          /\ state' = IF o = "success" THEN "success" ELSE "error"
          /\ cause' = IF o = "success" THEN "none" ELSE o
          /\ resState' = [resState EXCEPT ![execId] = IF o = "success" THEN "live" ELSE "error"]
    /\ trace' = Append(trace, "ExecutePending")
    /\ pc' = "closeMain"
    /\ UNCHANGED <<stmtVars, badCalls, cur, execId, ctxKind, ctxDone, pendingRes,
                   mainDoneCh, bgDoneCh, bg, interrupts, rowsOf, ret>>

\* CloseMainDone in a version of executeBound that returns after closing
\* mainDoneCh, without the wait for the watcher.
CloseMainDoneAndReturn ==
    /\ pc = "closeMain"
    /\ mainDoneCh' = [mainDoneCh EXCEPT ![execId] = "closed"]
    /\ pc' = "finish"
    /\ UNCHANGED <<stmtVars, badCalls, cur, execId, ctxKind, ctxDone, pendingRes,
                   resState, bgDoneCh, bg, state, cause, interrupts, rowsOf, trace, ret>>

\* CloseMainDone in a version of executeBound that goes on to the wait
\* without closing mainDoneCh.
CloseMainDoneSkipped ==
    /\ pc = "closeMain"
    /\ pc' = "waitBg"
    /\ UNCHANGED <<stmtVars, badCalls, cur, execId, ctxKind, ctxDone, pendingRes,
                   resState, mainDoneCh, bgDoneCh, bg, state, cause, interrupts, rowsOf,
                   trace, ret>>

\* executeBound, line 419: close(mainDoneCh).
CloseMainDone ==
    /\ pc = "closeMain"
    /\ mainDoneCh' = [mainDoneCh EXCEPT ![execId] = "closed"]
    /\ pc' = "waitBg"
    /\ UNCHANGED <<stmtVars, badCalls, cur, execId, ctxKind, ctxDone, pendingRes,
                   resState, bgDoneCh, bg, state, cause, interrupts, rowsOf, trace, ret>>

\* WaitBg without the receive from bgDoneCh: the call goes on at once.
WaitBgNoWait ==
    /\ pc = "waitBg"
    /\ pc' = "finish"
    /\ UNCHANGED <<stmtVars, badCalls, cur, execId, ctxKind, ctxDone, pendingRes,
                   resState, mainDoneCh, bgDoneCh, bg, state, cause, interrupts,
                   rowsOf, trace, ret>>

\* executeBound, line 423: <-bgDoneCh.
WaitBg ==
    /\ pc = "waitBg"
    /\ bgDoneCh[execId] = "closed"
    /\ pc' = "finish"
    /\ UNCHANGED <<stmtVars, badCalls, cur, execId, ctxKind, ctxDone, pendingRes,
                   resState, mainDoneCh, bgDoneCh, bg, state, cause, interrupts,
                   rowsOf, trace, ret>>

\* executeFailed without the ctx.Err() test: the engine's error text is
\* returned whatever made the call fail.
executeFailedEngineText(done) ==
    [err |-> {"duckdbErr"}, tr |-> <<"ResultError", "DestroyResult">>]

\* executeBound, lines 424-433: the error identities returned when the
\* execute-pending call failed, and the engine calls made on that path.
executeFailed(done) ==
    IF done
    THEN [err |-> {"ctxErr"}, tr |-> <<"DestroyResult">>]
    ELSE [err |-> {"duckdbErr"}, tr |-> <<"ResultError", "DestroyResult">>]

\* Every entry point keeps its result open as a query does.
isQueryAnyCall(call) == call \in {"QueryContext", "QueryBound", "ExecContext", "ExecBound"}

\* What the entry point does with a successful result: Exec reads the value
\* at (0,0) and destroys the result; Query hands it to a cursor and sets rows.
isQuery(call) == call \in {"QueryContext", "QueryBound"}

\* Finish with ExecContext / ExecBound returning without the deferred
\* apiDestroyResult.
FinishExecKeepsResult ==
    /\ pc = "finish"
    /\ pc' = "idle"
    /\ pendingRes' = [pendingRes EXCEPT ![execId] = Destroy(@)]
    /\ IF state = "error"
       THEN LET f == executeFailed(ctxDone[execId])
            IN  /\ trace' = trace \o f.tr \o <<"DestroyPending">>
                /\ resState' = [resState EXCEPT ![execId] = Destroy(@)]
                /\ ret' = Result(cur, "nil", f.err, "")
                /\ UNCHANGED <<rows, rowsOf>>
       ELSE IF isQuery(cur)
       THEN /\ trace' = Append(trace, "DestroyPending")
            /\ rows' = TRUE
            /\ rowsOf' = execId
            /\ ret' = Result(cur, "rows", {}, "")
            /\ UNCHANGED resState
       ELSE /\ trace' = trace \o <<"DestroyPending", "ValueInt64">>
            /\ ret' = Result(cur, "result", {}, "")
            /\ UNCHANGED <<rows, rowsOf, resState>>
    /\ IF bg[execId] = "exited"
       THEN \* ctx goes out of scope: nothing refers to the context any more.
            /\ ctxKind' = [ctxKind EXCEPT ![execId] = "none"]
            /\ ctxDone' = [ctxDone EXCEPT ![execId] = FALSE]
       ELSE UNCHANGED <<ctxKind, ctxDone>>
    /\ UNCHANGED <<preparedStmt, bound, closed, destroyCount, badCalls, cur, execId,
                   mainDoneCh, bgDoneCh, bg, state, cause, interrupts>>

\* executeBound, lines 424-435, with the deferred apiDestroyPending, and the
\* rest of the entry point that called it.
Finish ==
    /\ pc = "finish"
    /\ pc' = "idle"
    /\ pendingRes' = [pendingRes EXCEPT ![execId] = Destroy(@)]
    /\ IF state = "error"
       THEN LET f == executeFailed(ctxDone[execId])
            IN  /\ trace' = trace \o f.tr \o <<"DestroyPending">>
                /\ resState' = [resState EXCEPT ![execId] = Destroy(@)]
                /\ ret' = Result(cur, "nil", f.err, "")
                /\ UNCHANGED <<rows, rowsOf>>
       ELSE IF isQuery(cur)
       THEN /\ trace' = Append(trace, "DestroyPending")
            /\ rows' = TRUE
            /\ rowsOf' = execId
            /\ ret' = Result(cur, "rows", {}, "")
            /\ UNCHANGED resState
       ELSE /\ trace' = trace \o <<"DestroyPending", "ValueInt64", "DestroyResult">>
            /\ resState' = [resState EXCEPT ![execId] = Destroy(@)]
            /\ ret' = Result(cur, "result", {}, "")
            /\ UNCHANGED <<rows, rowsOf>>
    /\ IF bg[execId] = "exited"
       THEN \* ctx goes out of scope: nothing refers to the context any more.
            /\ ctxKind' = [ctxKind EXCEPT ![execId] = "none"]
            /\ ctxDone' = [ctxDone EXCEPT ![execId] = FALSE]
       ELSE UNCHANGED <<ctxKind, ctxDone>>
    /\ UNCHANGED <<preparedStmt, bound, closed, destroyCount, badCalls, cur, execId,
                   mainDoneCh, bgDoneCh, bg, state, cause, interrupts>>

----
\* The watcher goroutine of execution k (executeBound, lines 405-415).

watcherFrame == <<stmtVars, badCalls, pc, cur, execId, ctxKind, ctxDone, pendingRes,
                  resState, mainDoneCh, state, cause, rowsOf, trace, ret>>

\* WatcherSelectCtx with close(bgDoneCh) moved in front of apiInterrupt.
WatcherSelectCtxCloseFirst(k) ==
    /\ bg[k] = "select"
    /\ ctxDone[k]
    /\ bg' = [bg EXCEPT ![k] = "interrupt"]
    /\ bgDoneCh' = [bgDoneCh EXCEPT ![k] = "closed"]
    /\ UNCHANGED <<watcherFrame, interrupts>>

\* select, case <-ctx.Done()
WatcherSelectCtx(k) ==
    /\ bg[k] = "select"
    /\ ctxDone[k]
    /\ bg' = [bg EXCEPT ![k] = "interrupt"]
    /\ UNCHANGED <<watcherFrame, bgDoneCh, interrupts>>

\* apiInterrupt(s.conn.conn): the interrupt reaches the connection during
\* whatever executeBound call is in progress on it at that moment.
WatcherInterrupt(k) ==
    /\ bg[k] = "interrupt"
    /\ interrupts' = interrupts \cup {[by |-> k, during |-> Active]}
    /\ bg' = [bg EXCEPT ![k] = "closeBg"]
    /\ UNCHANGED <<watcherFrame, bgDoneCh>>

\* select, case <-mainDoneCh
WatcherSelectMain(k) ==
    /\ bg[k] = "select"
    /\ mainDoneCh[k] = "closed"
    /\ bg' = [bg EXCEPT ![k] = "closeBg"]
    /\ UNCHANGED <<watcherFrame, bgDoneCh, interrupts>>

\* close(bgDoneCh); return
WatcherCloseBg(k) ==
    /\ bg[k] = "closeBg"
    /\ bgDoneCh' = [bgDoneCh EXCEPT ![k] = "closed"]
    /\ bg' = [bg EXCEPT ![k] = "exited"]
    /\ UNCHANGED <<watcherFrame, interrupts>>

\* The caller cancels the context of execution k (or its deadline passes).
\* This can happen at any time; it is a step of the model for as long as
\* something can still observe the context: the call has not returned, or
\* the watcher started for it has not exited.
CancelCtx(k) ==
    /\ k <= execId
    /\ ctxKind[k] = "cancel"
    /\ ~ctxDone[k]
    /\ Active = k \/ bg[k] \notin {"none", "exited"}
    /\ ctxDone' = [ctxDone EXCEPT ![k] = TRUE]
    /\ UNCHANGED <<stmtVars, badCalls, pc, cur, execId, ctxKind, pendingRes, resState,
                   mainDoneCh, bgDoneCh, bg, state, cause, interrupts, rowsOf, trace, ret>>

\* The cursor of a query is closed: its result is destroyed and the statement
\* has no open result any more.
RowsClose ==
    /\ pc = "idle"
    /\ rows
    /\ rows' = FALSE
    /\ rowsOf' = 0
    /\ resState' = [resState EXCEPT ![rowsOf] = Destroy(@)]
    /\ ret' = Result("RowsClose", "nil", {}, "")
    /\ trace' = <<"DestroyResult">>
    /\ UNCHANGED <<preparedStmt, bound, closed, destroyCount, badCalls, pc, cur, execId,
                   ctxKind, ctxDone, pendingRes, mainDoneCh, bgDoneCh, bg, state, cause,
                   interrupts>>

----
Next ==
    \/ Close /\ UNCHANGED auxVars
    \/ NumInput /\ UNCHANGED auxVars
    \/ StatementType /\ UNCHANGED auxVars
    \/ \E n \in ParamIndexes : ParamName(n) /\ UNCHANGED auxVars
    \/ \E n \in ParamIndexes : ParamType(n) /\ UNCHANGED auxVars
    \/ \E args \in ArgLists : Bind(args) /\ UNCHANGED auxVars
    \/ ExecContext /\ UNCHANGED auxVars
    \/ QueryContext /\ UNCHANGED auxVars
    \/ ExecBound /\ UNCHANGED auxVars
    \/ QueryBound /\ UNCHANGED auxVars
    \/ ExecutePending /\ UNCHANGED auxVars
    \/ CloseMainDone /\ UNCHANGED auxVars
    \/ WaitBg /\ UNCHANGED auxVars
    \/ Finish /\ UNCHANGED auxVars
    \/ \E k \in Execs : WatcherSelectCtx(k) /\ UNCHANGED auxVars
    \/ \E k \in Execs : WatcherInterrupt(k) /\ UNCHANGED auxVars
    \/ \E k \in Execs : WatcherSelectMain(k) /\ UNCHANGED auxVars
    \/ \E k \in Execs : WatcherCloseBg(k) /\ UNCHANGED auxVars
    \/ \E k \in Execs : CancelCtx(k) /\ UNCHANGED auxVars
    \/ RowsClose /\ UNCHANGED auxVars

Spec == Init /\ [][Next]_vars

\* The steps of the watcher goroutine of execution k.
Watcher(k) ==
    \/ WatcherSelectCtx(k)
    \/ WatcherInterrupt(k)
    \/ WatcherSelectMain(k)
    \/ WatcherCloseBg(k)

\* The steps of the calling goroutine after apiExecutePending has returned.
MainAfterExecute == CloseMainDone \/ WaitBg \/ Finish

\* Spec with the scheduling of the Go runtime: a goroutine that stays
\* runnable is run, the watcher as well as the calling goroutine; a step that
\* waits on a channel is runnable once the channel is closed, and a closed
\* channel stays closed.  Nothing is assumed of the caller, the context or
\* the engine.
SpecLive ==
    /\ Spec
    /\ \A k \in Execs : WF_vars(Watcher(k) /\ UNCHANGED auxVars)
    /\ WF_vars(MainAfterExecute /\ UNCHANGED auxVars)

----
\* Claims about the watcher of executeBound.

\* The watcher of execution k makes its apiInterrupt call in this step.
interruptStep(k) == bg[k] = "interrupt" /\ bg'[k] = "closeBg"

\* C1: an execution that got past pending-result creation has exactly one
\* watcher for as long as the call runs, and when the call has returned (with
\* a result, an engine error or the cancellation error) its watcher has closed
\* bgDoneCh and exited: a watcher runs only during the call that started it.
C1_WatcherJoined ==
    \A k \in Execs :
        /\ (bg[k] # "none") <=> (mainDoneCh[k] # "nil")
        /\ resState[k] # "none" => bg[k] # "none"
        /\ (Active = k /\ pc \in {"execute", "closeMain", "waitBg"}) =>
               bg[k] \in {"select", "interrupt", "closeBg", "exited"}
        /\ (Active = k /\ pc = "finish") => (bg[k] = "exited" /\ bgDoneCh[k] = "closed")
        /\ Active # k => bg[k] \in {"none", "exited"}
        /\ (Active # k /\ bg[k] = "exited") => bgDoneCh[k] = "closed"

\* C1 witness: a call has returned the cancellation error after its watcher
\* sent the interrupt, closed bgDoneCh and exited.
C1_Witness ==
    /\ pc = "idle"
    /\ execId >= 1
    /\ ret.err = {"ctxErr"}
    /\ bg[execId] = "exited"
    /\ bgDoneCh[execId] = "closed"
    /\ \E i \in interrupts : i.by = execId

\* C2: every interrupt reaches the connection while the executeBound call
\* whose watcher sent it is still in progress, so an execution whose context
\* is never cancelled sees no interrupt and never fails because of one.
C2_NoLeakedInterrupt ==
    /\ \A i \in interrupts : i.during = i.by
    /\ \A k \in Execs :
          (Active = k /\ ctxKind[k] = "background") =>
              /\ ~\E i \in interrupts : i.during = k
              /\ cause # "interrupt"

\* C2 witness: execution 1 was interrupted by its own watcher and has
\* returned; execution 2 runs on the same connection under
\* context.Background() and its execute-pending call has returned.
C2_Witness ==
    /\ execId = 2
    /\ pc = "closeMain"
    /\ ctxKind[2] = "background"
    /\ \E i \in interrupts : i.by = 1

\* C3 as stated: the watcher never calls apiInterrupt once the calling
\* goroutine has closed mainDoneCh.
C3_NoInterruptAfterStop ==
    [][\A k \in Execs : interruptStep(k) => mainDoneCh[k] # "closed"]_vars

\* C3 as amended: the watcher never calls apiInterrupt once it has closed
\* bgDoneCh, nor once the executeBound call that started it has returned; it
\* may still call apiInterrupt after mainDoneCh was closed.
C3_NoInterruptAfterAck ==
    [][\A k \in Execs : interruptStep(k) => (bgDoneCh[k] = "open" /\ Active = k)]_vars

\* C3 witness: an interrupt was sent by the watcher of the running call after
\* the engine's execute-pending call had already returned.
C3_Witness ==
    /\ pc \in {"closeMain", "waitBg"}
    /\ bg[execId] = "closeBg"
    /\ \E i \in interrupts : i.by = execId /\ i.during = execId
    /\ cause # "interrupt"

----
\* Claims about the errors and handles of executeBound.

\* The step in which executeBound returns after its execute-pending call failed.
failedReturn == pc = "finish" /\ pc' = "idle" /\ state = "error"

\* How often the engine call c occurs in the sequence of calls tr.
Count(tr, c) == Cardinality({i \in 1..Len(tr) : tr[i] = c})

\* C4: when the execute-pending call failed, executeBound returns the
\* cancellation error exactly if the context is cancelled when it looks, and
\* the engine's error otherwise; an execute call that an interrupt unwound is
\* never reported with the engine's text; either way no result is returned
\* and the result handle is destroyed, once.
C4_CancelOrEngineError ==
    [][failedReturn =>
          /\ (ret'.err = {"ctxErr"}) <=> ctxDone[execId]
          /\ (ret'.err = {"duckdbErr"}) <=> ~ctxDone[execId]
          /\ cause = "interrupt" => ret'.err = {"ctxErr"}
          /\ ret'.val = "nil"
          /\ ret'.panic = ""
          /\ resState[execId] = "error"
          /\ resState'[execId] = "destroyed"
          /\ Count(trace', "DestroyResult") = 1
          /\ ~rows']_vars

\* C4 witness: one behaviour has returned the cancellation error for a
\* failed execute-pending call (here the engine had failed on its own while
\* the context was cancelled); C4_WitnessEngine is the other outcome.
C4_Witness ==
    /\ pc = "idle"
    /\ state = "error"
    /\ cause = "engine"
    /\ ret.err = {"ctxErr"}
    /\ ret.val = "nil"
    /\ resState[execId] = "destroyed"

C4_WitnessEngine ==
    /\ pc = "idle"
    /\ state = "error"
    /\ ret.err = {"duckdbErr"}
    /\ ret.call \in {"ExecBound", "QueryBound", "ExecContext", "QueryContext"}
    /\ "ExecutePending" \in Range(trace)

\* The latest call was an executeBound whose apiPendingPrepared failed.
pendingCreationFailed == "PendingError" \in Range(trace)

\* C5: the pending-result handle of an execution is live while the call runs
\* and destroyed exactly once when it has returned, on every path; when
\* pending creation fails the calls are create, read error text, destroy, in
\* this order, and neither a watcher is started nor execute-pending called.
C5_PendingDestroyedOnce ==
    /\ \A k \in Execs :
          /\ pendingRes[k] # "doubleDestroyed"
          /\ k > execId => pendingRes[k] = "none"
          /\ Active = k => pendingRes[k] = "live"
          /\ (k <= execId /\ Active # k) => pendingRes[k] = "destroyed"
    /\ (pc = "idle" /\ "PendingPrepared" \in Range(trace)) =>
          /\ Count(trace, "PendingPrepared") = 1
          /\ Count(trace, "DestroyPending") = 1
    /\ pc # "idle" => "DestroyPending" \notin Range(trace)
    /\ pendingCreationFailed =>
          /\ pc = "idle"
          /\ Len(trace) >= 3
          /\ SubSeq(trace, Len(trace) - 2, Len(trace))
                = <<"PendingPrepared", "PendingError", "DestroyPending">>
          /\ "ExecutePending" \notin Range(trace)
          /\ bg[execId] = "none"
          /\ mainDoneCh[execId] = "nil"
          /\ resState[execId] = "none"
          /\ ret.val = "nil"
          /\ ret.err = {"duckdbErr"}

\* C5 witness: pending creation failed and its handle is destroyed.
C5_Witness ==
    /\ pendingCreationFailed
    /\ pendingRes[execId] = "destroyed"
    /\ bg[execId] = "none"

\* C5 witness of the other paths: a call that ran execute-pending has
\* returned the cancellation error and its pending handle is destroyed.
C5_WitnessCancelled ==
    /\ pc = "idle"
    /\ ret.err = {"ctxErr"}
    /\ pendingRes[execId] = "destroyed"
    /\ Count(trace, "DestroyPending") = 1

----
\* Claims about the lifecycle of the statement.

BoundCalls == {"ExecBound", "QueryBound"}
ContextCalls == {"ExecContext", "QueryContext"}

\* A step in which an entry point named in calls is called (entry points are
\* called while no call is in progress, and each records its name in ret).
called(calls) == pc = "idle" /\ ret'.call \in calls /\ <<ret, trace>>' # <<ret, trace>>

\* The step starts no execution, opens no result, binds nothing and makes no
\* engine call on the prepared statement.
noEffect ==
    /\ UNCHANGED <<preparedStmt, bound, closed, rows, destroyCount, execId,
                   pendingRes, resState, rowsOf, pc>>
    /\ Range(trace') \cap PreparedApis = {}
    /\ "BindValue" \notin Range(trace')
    /\ "PendingPrepared" \notin Range(trace')

\* C6: once the statement is closed it stays closed, and no later call of
\* any entry point binds, executes, opens a result or reaches the engine
\* with the destroyed prepared-statement handle.
C6_ClosedIsTerminal ==
    /\ [](closed => (pc = "idle" /\ ~rows))
    /\ [](badCalls = {})
    /\ [][closed => (closed' /\ noEffect /\ ret'.val \in {"nil", "zero"})]_vars

\* C6 witness: after Close, an execution was attempted through QueryContext.
C6_Witness ==
    /\ closed
    /\ preparedStmt = "destroyed"
    /\ bound
    /\ ret.call = "QueryContext"
    /\ ret.panic = "AfterClose"

\* C7: on an open statement ExecBound and QueryBound return the not-bound
\* error when the statement is not bound and the active-rows error when a
\* cursor is open, with a nil result, no pending result and the flags bound,
\* rows and closed as they were.
C7_NotBoundActiveRows ==
    [][(called(BoundCalls) /\ ~closed) =>
          /\ rows => (ret'.err = {"errActiveRows"} /\ ret'.val = "nil" /\ noEffect)
          /\ ~bound => (ret'.err = {"errNotBound"} /\ ret'.val = "nil" /\ noEffect)
          /\ (bound /\ ~rows) => ret'.err \cap {"errActiveRows", "errNotBound"} = {}]_vars

\* C7 witness: QueryBound was refused because a cursor is open.
C7_Witness ==
    /\ ~closed
    /\ rows
    /\ bound
    /\ ret.call = "QueryBound"
    /\ ret.err = {"errActiveRows"}
    /\ ret.val = "nil"

\* C7 witness of the other case: ExecBound on a statement never bound.
C7_WitnessNotBound ==
    /\ ~closed
    /\ ~bound
    /\ ret.call = "ExecBound"
    /\ ret.err = {"errNotBound"}

\* C8: on a closed statement or one with an open result, ExecContext and
\* QueryContext panic before they bind a parameter or call the engine, while
\* ExecBound and QueryBound return an error (and do not panic).
C8_PanicVersusError ==
    [][(closed \/ rows) =>
          /\ called(ContextCalls) =>
                (ret'.panic \in {"AfterClose", "WithActiveRows"} /\ ret'.err = {}
                    /\ trace' = <<>> /\ noEffect)
          /\ called(BoundCalls) =>
                (ret'.panic = "" /\ ret'.err # {} /\ ret'.val = "nil"
                    /\ trace' = <<>> /\ noEffect)]_vars

\* C8 witness: ExecContext panicked on a statement with an open result.
C8_Witness ==
    /\ rows
    /\ ~closed
    /\ ret.call = "ExecContext"
    /\ ret.panic = "WithActiveRows"

\* C9: Close with an open cursor and a second Close panic and destroy
\* nothing; the prepared-statement handle is destroyed at most once, and
\* exactly once when the statement is closed: by the first Close that finds
\* no open result.
C9_DestroyedOnce ==
    /\ [](destroyCount <= 1)
    /\ []((destroyCount = 1) <=> (preparedStmt = "destroyed"))
    /\ []((closed /\ preparedStmt # "nil") <=> (preparedStmt = "destroyed"))
    /\ [][called({"Close"}) =>
            /\ rows => (ret'.panic = "CloseWithActiveRows" /\ noEffect)
            /\ (~rows /\ closed) => (ret'.panic = "DoubleClose" /\ noEffect)
            /\ (~rows /\ ~closed /\ preparedStmt = "live") =>
                  (closed' /\ preparedStmt' = "destroyed" /\ destroyCount' = 1
                      /\ ret'.panic = "")]_vars

\* C9 witness: a second Close has panicked and the handle was destroyed once.
C9_Witness ==
    /\ ret.call = "Close"
    /\ ret.panic = "DoubleClose"
    /\ destroyCount = 1
    /\ preparedStmt = "destroyed"

\* C9 witness of the other fatal case: Close with an open cursor.
C9_WitnessActiveRows ==
    /\ ret.call = "Close"
    /\ ret.panic = "CloseWithActiveRows"
    /\ rows
    /\ destroyCount = 0

\* C10: on a closed statement a second Close, Bind and ExecBound / QueryBound
\* each report an identity that names the closed statement (Bind:
\* could-not-bind joined with closed-statement) and that is none of the errors
\* for a closed connection, an unbound statement or an open result.
C10_ClosedStmtIdentity ==
    (closed /\ preparedStmt = "destroyed") =>
        /\ (ret.call = "Close" /\ ret.panic # "") => ret.panic = "DoubleClose"
        /\ ret.call = "Bind" => ret.err = {"errCouldNotBind", "errClosedStmt"}
        /\ ret.call \in BoundCalls =>
              /\ "errClosedStmt" \in ret.err
              /\ ret.err \cap {"errClosedCon", "errNotBound", "errActiveRows"} = {}

----
\* Claims about the introspection of parameters.

\* C15: on an open, prepared statement ParamName(n) and ParamType(n) with n
\* outside 1..count (zero, above the count, negative) return the
\* parameter-index error with the zero value and look nothing up by index.
C15_IndexChecked ==
    [][\A n \in ParamIndexes \ (1..NParams) :
          ((ParamName(n) \/ ParamType(n)) /\ ~closed /\ preparedStmt = "live") =>
              /\ "paramIndexError" \in ret'.err
              /\ ret'.val = "zero"
              /\ Range(trace') \cap {"ParameterName", "ParamType"} = {}]_vars

IntrospectionCalls == {"StatementType", "ParamName", "ParamType"}

\* C16: StatementType, ParamName and ParamType called on a closed statement
\* return the closed-statement error and the zero value, and called on an
\* open statement without a prepared handle the uninitialized-statement error
\* and the zero value; Bind returns could-not-bind joined with the same
\* error; a closed statement without a handle reports closed; none of these
\* calls reaches the engine.
C16_ClosedBeforeUninitialized ==
    /\ (ret.call \in IntrospectionCalls /\ closed) =>
          ret.err = {"errClosedStmt"} /\ ret.val = "zero" /\ trace = <<>>
    /\ (ret.call \in IntrospectionCalls /\ ~closed /\ preparedStmt = "nil") =>
          ret.err = {"errUninitializedStmt"} /\ ret.val = "zero" /\ trace = <<>>
    /\ (ret.call = "Bind" /\ closed) =>
          ret.err = {"errCouldNotBind", "errClosedStmt"} /\ trace = <<>>
    /\ (ret.call = "Bind" /\ ~closed /\ preparedStmt = "nil") =>
          ret.err = {"errCouldNotBind", "errUninitializedStmt"} /\ trace = <<>> /\ ~bound

\* C16 witness: StatementType was called on a closed statement that never had
\* a prepared handle.
C16_Witness ==
    /\ closed
    /\ preparedStmt = "nil"
    /\ ret.call = "StatementType"
    /\ ret.err = {"errClosedStmt"}

\* C16 witness: Bind was called on an open statement without a prepared handle.
C16_WitnessBind ==
    /\ ~closed
    /\ preparedStmt = "nil"
    /\ ret.call = "Bind"
    /\ "errUninitializedStmt" \in ret.err

----
\* Claims about the results of an execution.

QueryCalls == {"QueryContext", "QueryBound"}
ExecCalls == {"ExecContext", "ExecBound"}

\* An entry point in calls returns in this step (with or without having
\* started an execution).
returns(calls) ==
    /\ pc' = "idle"
    /\ ret'.call \in calls
    /\ pc = "finish" \/ <<ret, trace>>' # <<ret, trace>>

\* C17: rows becomes true exactly when QueryContext or QueryBound returns
\* without an error, and false again only when the cursor is closed; a query
\* that returns an error and every return of ExecContext or ExecBound leave
\* rows as it was; with rows false no call is refused for an open result.
C17_RowsMark ==
    [][/\ (returns(QueryCalls) /\ ret'.err = {} /\ ret'.panic = "") => rows'
       /\ (~rows /\ rows') => (returns(QueryCalls) /\ ret'.err = {} /\ ret'.val = "rows")
       /\ (rows /\ ~rows') => RowsClose
       /\ (returns(QueryCalls) /\ ret'.err # {}) => (rows' = rows)
       /\ returns(ExecCalls) => (rows' = rows)
       /\ (~rows /\ pc = "idle") =>
             /\ ret'.panic \notin {"WithActiveRows", "CloseWithActiveRows"}
             /\ "errActiveRows" \notin ret'.err]_vars

\* C17 witness: after an earlier execution a second one, a query, returned
\* its cursor.
C17_Witness ==
    /\ rows
    /\ rowsOf = 2
    /\ ret.call \in QueryCalls
    /\ ret.val = "rows"
    /\ resState[1] = "destroyed"

\* C17 witness: the cursor of a query was closed.
C17_WitnessClosed ==
    /\ ~rows
    /\ ret.call = "RowsClose"
    /\ execId > 0

\* The position of the first call c in tr (0: none).
firstIndex(tr, c) == IF c \in Range(tr) THEN CHOOSE k \in 1..Len(tr) : tr[k] = c /\ \A l \in 1..(k - 1) : tr[l] # c ELSE 0

\* C18: when ExecContext or ExecBound returns a result, it has read the value
\* at (0,0) once and then destroyed the result handle once; when it returns an
\* error, the result is nil and no result handle is left undestroyed (but the
\* one an open cursor owns); no result handle is destroyed twice.
C18_ExecResultDestroyed ==
    /\ [](\A k \in Execs : resState[k] # "doubleDestroyed")
    /\ [][returns(ExecCalls) =>
            /\ (ret'.err = {} /\ ret'.panic = "") =>
                  /\ ret'.val = "result"
                  /\ Count(trace', "ValueInt64") = 1
                  /\ Count(trace', "DestroyResult") = 1
                  /\ firstIndex(trace', "ValueInt64") < firstIndex(trace', "DestroyResult")
                  /\ resState[execId] = "live" /\ resState'[execId] = "destroyed"
            /\ ret'.err # {} =>
                  /\ ret'.val = "nil"
                  /\ "ValueInt64" \notin Range(trace')
                  /\ \A k \in Execs : resState'[k] \in {"live", "error"} => (rows' /\ k = rowsOf')]_vars

\* C18 witness: ExecContext returned the affected-row count of its execution.
C18_Witness ==
    /\ ret.call = "ExecContext"
    /\ ret.val = "result"
    /\ execId > 0
    /\ resState[execId] = "destroyed"
    /\ "ValueInt64" \in Range(trace)

\* C18 witness: ExecBound failed in the engine and its result was destroyed.
C18_WitnessFailed ==
    /\ ret.call = "ExecBound"
    /\ ret.err # {}
    /\ execId > 0
    /\ resState[execId] = "destroyed"
    /\ pendingRes[execId] = "destroyed"

----
\* Stmt.bind in detail (specification SpecBind): which argument each
\* parameter receives and how its value is encoded.

\* Longest argument list handed to Bind under SpecBind.
MaxBindArgs == 3

\* The declared names of the statement's parameters by position, as
\* apiParameterName reports them: INSERT INTO foo VALUES ($bar, $baz).
declaredNames == <<"bar", "baz">>
numInput == Len(declaredNames)

\* Parameter types bindComplexValue refuses by name, and those it encodes.
NestedTypes == {"LIST", "STRUCT", "MAP", "ARRAY", "ENUM"}
SubsecondTypes == {"TIMESTAMP_S", "TIMESTAMP_MS", "TIMESTAMP_NS"}
\* The keys of unsupportedTypeToStringMap; TYPE_INVALID stands for them.
unsupportedTypeToStringMap == {"INVALID"}
\* The parameter types a behaviour may declare. INTEGER stands for the types
\* bindComplexValue has no case for.
Types == {"INTEGER", "TIMESTAMP", "DATE", "TIME"} \cup unsupportedTypeToStringMap
             \cup NestedTypes \cup SubsecondTypes

\* Go values by the case of bindValue's type switch they take: an int the
\* engine accepts, an int the engine's bind call rejects, nil, a Decimal, and
\* a time.Time (no case of the switch: bindComplexValue). v tells the values
\* of one argument list apart.
ValueKinds == {"int", "intRejected", "nil", "Decimal", "Time"}
NoValue == [kind |-> "none", v |-> 0]

\* driver.NamedValue
NamedValue(o, nm, k, v) == [Ordinal |-> o, Name |-> nm, Value |-> [kind |-> k, v |-> v]]

\* Argument lists that vary Ordinal and Name; every value is an int, whose
\* encoding does not consult the parameter type.
ResolutionLists ==
    UNION {{[j \in 1..n |-> NamedValue(o[j], nm[j], "int", j)] :
               o \in [1..n -> 0..numInput],
               nm \in [1..n -> {""} \cup Range(declaredNames)]} :
           n \in 0..MaxBindArgs}

\* Positional argument lists, as database/sql builds them, that vary the values.
ValueLists ==
    UNION {{[j \in 1..n |-> NamedValue(j, "", k[j], j)] : k \in [1..n -> ValueKinds]} :
           n \in 0..MaxBindArgs}

\* The calls SpecBind makes: an argument list and the parameters' types.
BindCases ==
    (ResolutionLists \X {[i \in 1..numInput |-> "INTEGER"]})
        \cup (ValueLists \X [1..numInput -> Types])

\* An engine call on parameter idx (0: none) with the value handed over.
Api(a, idx, val) == [api |-> a, idx |-> idx, val |-> val]
Lookup(a, idx) == Api(a, idx, NoValue)
\* The engine calls that bind a parameter.
BindApis == {"BindInt64", "BindNull", "BindTimestamp", "BindDate", "BindTime"}

\* An error identity; unsupportedTypeError names a type, addIndexToError an index.
Err(id) == [id |-> id, type |-> "", index |-> 0]
unsupportedTypeError(name, index) == [id |-> "unsupportedTypeError", type |-> name, index |-> index]

InitBind ==
    /\ InitStmt
    /\ preparedStmt = "live"
    /\ \E c \in BindCases : namedArgs = c[1] /\ paramTypes = c[2]
    /\ InitAppender

\* Stmt.bind, lines 275-279: from argument j on, every argument whose Ordinal
\* is i replaces arg.
RECURSIVE overrideWithOrdinal(_, _, _, _)
overrideWithOrdinal(as, i, j, arg) ==
    IF j > Len(as) THEN arg
    ELSE overrideWithOrdinal(as, i, j + 1, IF as[j].Ordinal = i THEN as[j] ELSE arg)

\* Stmt.bind, lines 282-286: from argument j on, every argument whose Name is
\* name replaces arg.
RECURSIVE overrideWithName(_, _, _, _)
overrideWithName(as, name, j, arg) ==
    IF j > Len(as) THEN arg
    ELSE overrideWithName(as, name, j + 1, IF as[j].Name = name THEN as[j] ELSE arg)

\* The argument with the ordinal override applied after the name override.
resolveArgOrdinalLast(as, i) ==
    overrideWithOrdinal(as, i, 1, overrideWithName(as, declaredNames[i], 1, as[i]))

\* Stmt.bind, lines 267-286: the argument bound to parameter i (1-based).
resolveArg(as, i) ==
    overrideWithName(as, declaredNames[i], 1, overrideWithOrdinal(as, i, 1, as[i]))

\* Stmt.bindComplexValue with the zero-based position n in its errors.
bindComplexValueZeroBased(val, n) ==
    LET t == paramTypes[n]
        lookup == <<Lookup("NParams", 0), Lookup("ParamType", n)>>
        unsupported(name) ==
            [ok |-> FALSE, err |-> {unsupportedTypeError(name, n - 1)}, tr |-> lookup]
        encoded(api) ==
            [ok |-> TRUE, err |-> {}, tr |-> Append(lookup, Api(api, n, val.Value))]
    IN  IF t \in unsupportedTypeToStringMap THEN unsupported(t)
        ELSE IF t = "TIMESTAMP" THEN encoded("BindTimestamp")
        ELSE IF t = "DATE" THEN encoded("BindDate")
        ELSE IF t = "TIME" THEN encoded("BindTime")
        ELSE IF t \in SubsecondTypes \cup NestedTypes THEN unsupported(t)
        ELSE unsupported("unknownType")

\* Stmt.bindComplexValue for parameter n (1-based, the code's n+1).
bindComplexValue(val, n) ==
    LET t == paramTypes[n]
        lookup == <<Lookup("NParams", 0), Lookup("ParamType", n)>>
        unsupported(name) ==
            [ok |-> FALSE, err |-> {unsupportedTypeError(name, n)}, tr |-> lookup]
        encoded(api) ==
            [ok |-> TRUE, err |-> {}, tr |-> Append(lookup, Api(api, n, val.Value))]
    IN  IF t \in unsupportedTypeToStringMap THEN unsupported(t)
        ELSE IF t = "TIMESTAMP" THEN encoded("BindTimestamp")
        ELSE IF t = "DATE" THEN encoded("BindDate")
        ELSE IF t = "TIME" THEN encoded("BindTime")
        ELSE IF t \in SubsecondTypes \cup NestedTypes THEN unsupported(t)
        ELSE unsupported("unknownType")

\* Stmt.bindValue for parameter n (1-based, the code's n+1): the engine calls
\* made, whether the state is not apiStateError, and the codec's error.
bindValueOf(val, n) ==
    LET k == val.Value.kind
    IN  CASE k = "int" ->
               [ok |-> TRUE, err |-> {}, tr |-> <<Api("BindInt64", n, val.Value)>>]
          [] k = "intRejected" ->
               [ok |-> FALSE, err |-> {}, tr |-> <<Api("BindInt64", n, val.Value)>>]
          [] k = "Decimal" ->
               [ok |-> FALSE, err |-> {unsupportedTypeError("DECIMAL", n)}, tr |-> <<>>]
          [] k = "nil" ->
               [ok |-> TRUE, err |-> {}, tr |-> <<Api("BindNull", n, val.Value)>>]
          [] OTHER -> bindComplexValue(val, n)

\* The loop of Stmt.bind going on to the next parameter after a failure.
RECURSIVE bindFromNoAbort(_, _)
bindFromNoAbort(as, i) ==
    IF i > numInput
    THEN [ok |-> TRUE, err |-> {}, tr |-> <<Lookup("NParams", 0)>>]
    ELSE LET v == bindValueOf(resolveArg(as, i), i)
             head == <<Lookup("NParams", 0), Lookup("ParameterName", i)>> \o v.tr
             rest == bindFromNoAbort(as, i + 1)
         IN  IF ~v.ok
             THEN [ok |-> FALSE,
                   err |-> {Err("errCouldNotBind"), Err("duckdbErr")} \cup v.err,
                   tr |-> Append(head \o rest.tr, Lookup("PrepareError", 0))]
             ELSE [rest EXCEPT !.tr = head \o rest.tr]

\* The loop of Stmt.bind from parameter i (1-based) on.
RECURSIVE bindFrom(_, _)
bindFrom(as, i) ==
    IF i > numInput
    THEN [ok |-> TRUE, err |-> {}, tr |-> <<Lookup("NParams", 0)>>]
    ELSE LET v == bindValueOf(resolveArg(as, i), i)
             head == <<Lookup("NParams", 0), Lookup("ParameterName", i)>> \o v.tr
         IN  IF ~v.ok
             THEN [ok |-> FALSE,
                   err |-> {Err("errCouldNotBind"), Err("duckdbErr")} \cup v.err,
                   tr |-> Append(head, Lookup("PrepareError", 0))]
             ELSE LET rest == bindFrom(as, i + 1)
                  IN  [rest EXCEPT !.tr = head \o rest.tr]

\* Stmt.bind with an argument list longer than the parameters refused as well.
bindNamedExactCount(as) ==
    IF numInput # Len(as)
    THEN [ok |-> FALSE, err |-> {Err("argCount")},
          tr |-> <<Lookup("NParams", 0), Lookup("NParams", 0)>>]
    ELSE LET l == bindFrom(as, 1)
         IN  [l EXCEPT !.tr = <<Lookup("NParams", 0)>> \o l.tr]

\* Stmt.bind
bindNamed(as) ==
    IF numInput > Len(as)
    THEN [ok |-> FALSE, err |-> {Err("argCount")},
          tr |-> <<Lookup("NParams", 0), Lookup("NParams", 0)>>]
    ELSE LET l == bindFrom(as, 1)
         IN  [l EXCEPT !.tr = <<Lookup("NParams", 0)>> \o l.tr]

\* Stmt.Bind, called with namedArgs.
BindNamed ==
    /\ pc = "idle"
    /\ IF closed
       THEN /\ Return("Bind", "nil", {Err("errCouldNotBind"), Err("errClosedStmt")}, "", <<>>)
            /\ UNCHANGED stmtVars
       ELSE IF preparedStmt = "nil"
       THEN /\ Return("Bind", "nil", {Err("errCouldNotBind"), Err("errUninitializedStmt")}, "", <<>>)
            /\ UNCHANGED stmtVars
       ELSE LET b == bindNamed(namedArgs)
            IN  /\ Return("Bind", "nil", b.err, "", b.tr)
                /\ bound' = IF b.ok THEN TRUE ELSE bound
                /\ UNCHANGED <<preparedStmt, closed, rows, destroyCount>>
    /\ UNCHANGED auxVars

NextBind == BindNamed

SpecBind == InitBind /\ [][NextBind]_vars

----
\* Claims about Stmt.bind.

Max(S) == CHOOSE x \in S : \A y \in S : y <= x
Min(S) == CHOOSE x \in S : \A y \in S : x <= y

\* Bind has returned from Stmt.bind (the statement was open and prepared).
bindReturned == ret.call = "Bind" /\ trace # <<>>

\* The engine calls of the latest Bind that bound parameter i.
bindCallsOf(i) == {k \in 1..Len(trace) : trace[k].api \in BindApis /\ trace[k].idx = i}

\* The arguments of namedArgs that name parameter i by Name, and by Ordinal.
byName(i) == {j \in 1..Len(namedArgs) : namedArgs[j].Name = declaredNames[i]}
byOrdinal(i) == {j \in 1..Len(namedArgs) : namedArgs[j].Ordinal = i}

\* C11: every parameter i that Bind binds receives the value of the last
\* argument whose Name is the parameter's declared name if there is one,
\* else of the last argument whose Ordinal is i if there is one, else of the
\* argument at position i.
C11_NameOverOrdinalOverPosition ==
    bindReturned =>
        \A i \in 1..numInput : \A k \in bindCallsOf(i) :
            trace[k].val =
                namedArgs[IF byName(i) # {} THEN Max(byName(i))
                          ELSE IF byOrdinal(i) # {} THEN Max(byOrdinal(i))
                          ELSE i].Value

\* C11 witness: a parameter was bound to an argument that names it by Name
\* and sits before a later argument that names it by Ordinal, neither of
\* them at the parameter's position.
C11_Witness ==
    /\ bindReturned
    /\ bound
    /\ \E i \in 1..numInput :
          /\ byName(i) # {} /\ byOrdinal(i) # {}
          /\ Max(byName(i)) < Max(byOrdinal(i))
          /\ i \notin byName(i) \cup byOrdinal(i)
          /\ Cardinality(byOrdinal(i)) > 1
          /\ \E k \in bindCallsOf(i) : trace[k].val = namedArgs[Max(byName(i))].Value

\* The engine calls of the latest Bind that bound a parameter.
bindCalls == {k \in 1..Len(trace) : trace[k].api \in BindApis}

\* C12: with fewer arguments than parameters Bind returns the argument-count
\* error, makes no engine bind call and leaves bound false; with more
\* arguments than parameters (all of them values the engine accepts) it
\* succeeds, sets bound and binds each declared parameter once; and every
\* bind call is for a declared parameter with a value of the argument list.
C12_ArgumentCount ==
    bindReturned =>
        /\ Len(namedArgs) < numInput =>
              /\ ret.err = {Err("argCount")}
              /\ bindCalls = {}
              /\ ~bound
        /\ (/\ Len(namedArgs) > numInput
            /\ \A j \in 1..Len(namedArgs) : namedArgs[j].Value.kind \in {"int", "nil"}) =>
              /\ ret.err = {}
              /\ bound
              /\ \A i \in 1..numInput : Cardinality(bindCallsOf(i)) = 1
        /\ \A k \in bindCalls :
              /\ trace[k].idx \in 1..numInput
              /\ \E j \in 1..Len(namedArgs) : trace[k].val = namedArgs[j].Value

\* C12 witness: Bind succeeded with one argument more than the statement has
\* parameters, the extra argument bound to no parameter.
C12_Witness ==
    /\ bindReturned
    /\ Len(namedArgs) > numInput
    /\ bound /\ ret.err = {}
    /\ Cardinality(bindCalls) = numInput
    /\ \E j \in 1..Len(namedArgs) : \A k \in bindCalls : trace[k].val # namedArgs[j].Value

\* C12 witness: Bind was refused for an argument list shorter than the parameters.
C12_WitnessShort ==
    /\ bindReturned
    /\ namedArgs # <<>>
    /\ Len(namedArgs) < numInput
    /\ ret.err # {}

\* The value val can be encoded for a parameter of type t and the engine
\* accepts it.
bindable(val, t) ==
    \/ val.kind \in {"int", "nil"}
    \/ val.kind = "Time" /\ t \in {"TIMESTAMP", "DATE", "TIME"}

\* The parameters whose resolved argument cannot be bound.
failing == {i \in 1..numInput : ~bindable(resolveArg(namedArgs, i).Value, paramTypes[i])}

\* C13: Bind looks at the parameters in increasing position; at the first
\* one whose value fails to encode or to bind it stops: the parameters before
\* it were bound once, no engine call is made for a later one, the error
\* joins could-not-bind with the codec's error and the engine's diagnostic,
\* and bound is true exactly when every parameter was bound.
C13_FirstFailureAborts ==
    (bindReturned /\ Len(namedArgs) >= numInput) =>
        /\ \A k, l \in 1..Len(trace) : (k < l) => trace[k].idx = 0 \/ trace[l].idx = 0
                                                  \/ trace[k].idx <= trace[l].idx
        /\ bound <=> (failing = {})
        /\ failing = {} =>
              /\ ret.err = {}
              /\ \A i \in 1..numInput : Cardinality(bindCallsOf(i)) = 1
        /\ failing # {} =>
              LET f == CHOOSE i \in failing : \A j \in failing : i <= j
              IN  /\ {Err("errCouldNotBind"), Err("duckdbErr")} \subseteq ret.err
                  /\ resolveArg(namedArgs, f).Value.kind \in {"Decimal", "Time"} =>
                        \E e \in ret.err : e.id = "unsupportedTypeError"
                  /\ \A k \in 1..Len(trace) : trace[k].idx <= f
                  /\ \A i \in 1..(f - 1) : Cardinality(bindCallsOf(i)) = 1
                  /\ trace[Len(trace)].api = "PrepareError"

\* C13 witness: the first parameter's value was refused by the codec while
\* the second parameter's value could have been bound.
C13_Witness ==
    /\ bindReturned
    /\ Len(namedArgs) >= numInput
    /\ failing = {1}
    /\ ~bound
    /\ bindCalls = {}
    /\ \E e \in ret.err : e.id = "unsupportedTypeError"

\* C13 witness: the engine rejected the second parameter after the first was bound.
C13_WitnessEngine ==
    /\ bindReturned
    /\ Len(namedArgs) >= numInput
    /\ failing = {2}
    /\ ~bound
    /\ ret.err = {Err("errCouldNotBind"), Err("duckdbErr")}
    /\ Cardinality(bindCallsOf(1)) = 1 /\ Cardinality(bindCallsOf(2)) = 1

\* The parameters the latest Bind got to (it looked up their names).
reached == {i \in 1..numInput : \E k \in 1..Len(trace) : trace[k] = Lookup("ParameterName", i)}

\* Parameter i was refused as unsupported: no engine bind call was made for
\* it and the error names the type and the 1-based index i.
refusedAs(name, i) ==
    /\ bindCallsOf(i) = {}
    /\ unsupportedTypeError(name, i) \in ret.err
    /\ ~bound

----
\* The Appender (specification SpecApp).

\* The variables of the statement that the appender's calls leave alone.
stmtOnly == <<stmtVars, execVars, badCalls, bindVars, newVars>>

InitApp ==
    /\ InitStmt
    /\ preparedStmt = "nil"
    /\ namedArgs = <<>>
    /\ paramTypes = <<>>
    /\ InitAppender

\* An engine or chunk call that fails in a call of the appender: op at the
\* buffered chunk in position at (0: an op that takes no chunk).
Fault(op, at) == [op |-> op, at |-> at]
ChunkFaults == {Fault(op, at) : op \in {"SetSize", "AppendDataChunk"}, at \in 1..Len(chunks)}
\* No fault, or one fault out of S.
AtMostOne(S) == {{}} \cup {{x} : x \in S}

\* A call made on chunk c (0: none) with the size, row or column n; the
\* appender's calls record these in trace.
Op(op, c, n) == [op |-> op, chunk |-> c, n |-> n, col |-> 0]
\* chunk.SetValue(col, row, val) on chunk c.
SetValueOp(c, row, col) == [op |-> "SetValue", chunk |-> c, n |-> row, col |-> col]

\* The values of a row: one the chunk encodes and one SetValue refuses.
RowValues == {"ok", "bad"}
\* SetValue stops at the first value it refuses: a refused value is the
\* last one of a row.
badLast(row, n) == \A i \in 1..(n - 1) : row[i] = "ok"
\* The value lists AppendRow takes: up to one value per column, and one list
\* with a value more than the table has columns.
TooLong == [i \in 1..(Len(columnNames) + 1) |-> "ok"]
RowLists == {vals \in SeqsUpTo(RowValues, Len(columnNames)) : badLast(vals, Len(vals))}
                \cup {TooLong}

\* The ids of the buffered chunks cs.
idsOf(cs) == {cs[i].id : i \in 1..Len(cs)}

\* The loop of appendDataChunks giving every chunk the full size.
RECURSIVE appendLoopAllFull(_, _)
appendLoopAllFull(i, fs) ==
    IF i > Len(chunks) THEN [err |-> {}, tr |-> <<>>, given |-> <<>>]
    ELSE LET rest == appendLoopAllFull(i + 1, fs)
         IN  [err |-> rest.err,
              tr |-> <<Op("SetSize", chunks[i].id, Capacity),
                       Op("AppendDataChunk", chunks[i].id, 0)>> \o rest.tr,
              given |-> <<[id |-> chunks[i].id, size |-> Capacity]>> \o rest.given]

\* Appender.appendDataChunks, lines 279-294: the loop from chunk i on.
RECURSIVE appendLoop(_, _)
appendLoop(i, fs) ==
    IF i > Len(chunks) THEN [err |-> {}, tr |-> <<>>, given |-> <<>>]
    ELSE LET size == IF i = Len(chunks) THEN rowCount ELSE Capacity
             setSize == Op("SetSize", chunks[i].id, size)
             append == Op("AppendDataChunk", chunks[i].id, 0)
         IN  IF Fault("SetSize", i) \in fs
             THEN [err |-> {"setSizeError"}, tr |-> <<setSize>>, given |-> <<>>]
             ELSE IF Fault("AppendDataChunk", i) \in fs
             THEN [err |-> {"duckdbErr"}, tr |-> <<setSize, append, Op("AppenderError", 0, 0)>>,
                   given |-> <<>>]
             ELSE LET rest == appendLoop(i + 1, fs)
                  IN  [err |-> rest.err,
                       tr |-> <<setSize, append>> \o rest.tr,
                       given |-> <<[id |-> chunks[i].id, size |-> size]>> \o rest.given]

\* Appender.appendDataChunks releasing only the chunks its loop got to.
appendDataChunksReleaseProcessed(fs) ==
    LET l == appendLoop(1, fs)
        done == {l.tr[k].chunk : k \in 1..Len(l.tr)} \ {0}
    IN  [err |-> l.err, given |-> l.given,
         tr |-> l.tr \o SelectSeq([i \in 1..Len(chunks) |-> Op("close", chunks[i].id, 0)],
                                  LAMBDA o : o.chunk \in done),
         mem |-> [k \in 1..MaxChunks |-> IF k \in done THEN Destroy(chunkMem[k]) ELSE chunkMem[k]]]

\* Appender.appendDataChunks releasing the chunks before its loop hands them over.
appendDataChunksReleaseFirst(fs) ==
    LET l == appendLoop(1, fs)
    IN  [err |-> l.err, given |-> l.given,
         tr |-> [i \in 1..Len(chunks) |-> Op("close", chunks[i].id, 0)] \o l.tr,
         mem |-> [k \in 1..MaxChunks |->
                    IF k \in idsOf(chunks) THEN Destroy(chunkMem[k]) ELSE chunkMem[k]]]

\* Appender.appendDataChunks: the error, the calls made, the chunks the engine
\* took and the chunks' memory afterwards; the caller empties a.chunks and
\* zeroes a.rowCount.
appendDataChunks(fs) ==
    LET l == appendLoop(1, fs)
    IN  [err |-> l.err, given |-> l.given,
         tr |-> l.tr \o [i \in 1..Len(chunks) |-> Op("close", chunks[i].id, 0)],
         mem |-> [k \in 1..MaxChunks |->
                    IF k \in idsOf(chunks) THEN Destroy(chunkMem[k]) ELSE chunkMem[k]]]

\* Appender.Flush as a step of a call: appendDataChunks, then apiAppenderFlush.
flush(fs) ==
    LET d == appendDataChunks(fs)
    IN  IF d.err # {}
        THEN [d EXCEPT !.err = {"errAppenderFlush", "invalidatedAppender"} \cup d.err]
        ELSE IF Fault("AppenderFlush", 0) \in fs
        THEN [d EXCEPT !.err = {"errAppenderFlush", "invalidatedAppender", "duckdbErr"},
                       !.tr = d.tr \o <<Op("AppenderFlush", 0, 0), Op("AppenderError", 0, 0)>>]
        ELSE [d EXCEPT !.tr = Append(d.tr, Op("AppenderFlush", 0, 0))]

\* A call of the appender returns err after the calls tr.
AppReturn(call, err, tr) ==
    /\ ret' = Result(call, "nil", err, "")
    /\ trace' = tr
    /\ UNCHANGED stmtOnly

NoAppends == [ok |-> 0, failed |-> FALSE]

\* The history of a behaviour in which a call has failed.
Failed == [appends |-> 0, slots |-> <<>>, handed |-> <<>>, failed |-> TRUE]
\* Row row of chunk c.
Slot(c, row) == [chunk |-> c, row |-> row]
\* The history h after a call: it wrote the slots written (none or one), the
\* engine took the chunks given, and the call failed (failed) or not.
Record(h, written, given, failed) ==
    IF h.failed \/ failed THEN Failed
    ELSE [appends |-> h.appends + Len(written),
          slots |-> h.slots \o written,
          handed |-> h.handed \o given,
          failed |-> FALSE]

\* An append counting the row although a value was refused.
rowCountAlwaysCounted(rc, err) == rc + 1
\* Appender.AppendRow, lines 163-169, and AppendRowMap, lines 232-239: the
\* row counter after the values were written with the error err; a.rowCount++
\* is reached only when no SetValue failed.
rowCountAfter(rc, err) == IF err = {} THEN rc + 1 ELSE rc

\* Appender.Flush marking the appender closed when the flush fails.
FlushClosesOnError(fs) ==
    \E f \in {flush(fs)} :
        /\ chunks' = <<>>
        /\ rowCount' = 0
        /\ chunkMem' = f.mem
        /\ appended' = NoAppends
        /\ history' = Record(history, <<>>, f.given, f.err # {})
        /\ AppReturn("Flush", f.err, f.tr)
        /\ rowArg' = NoRow
        /\ aClosed' = (aClosed \/ f.err # {})
        /\ UNCHANGED <<appender, activeColumns, created, types, selected>>

\* Appender.Flush keeping the buffer when the flush fails.
FlushKeepsOnError(fs) ==
    \E f \in {flush(fs)} :
        /\ chunks' = IF f.err # {} THEN chunks ELSE <<>>
        /\ rowCount' = IF f.err # {} THEN rowCount ELSE 0
        /\ chunkMem' = f.mem
        /\ appended' = NoAppends
        /\ history' = Record(history, <<>>, f.given, f.err # {})
        /\ AppReturn("Flush", f.err, f.tr)
        /\ rowArg' = NoRow
        /\ UNCHANGED <<aClosed, appender, activeColumns, created, types, selected>>

\* Appender.Flush
Flush(fs) ==
    \E f \in {flush(fs)} :
        /\ chunks' = <<>>
        /\ rowCount' = 0
        /\ chunkMem' = f.mem
        /\ appended' = NoAppends
        /\ history' = Record(history, <<>>, f.given, f.err # {})
        /\ AppReturn("Flush", f.err, f.tr)
        /\ rowArg' = NoRow
        /\ UNCHANGED <<aClosed, appender, activeColumns, created, types, selected>>

\* destroyTypeSlice(a.types)
destroyTypeSlice == [i \in 1..Len(columnNames) |-> Op("DestroyLogicalType", 0, i)]

\* Appender.Close returning the first error only.
AppenderCloseFirstError(fs) ==
    IF aClosed
    THEN /\ AppReturn("Close", {"errAppenderDoubleClose"}, <<>>)
         /\ UNCHANGED appVars
    ELSE \E d \in {appendDataChunks(fs)} :
         LET flushFails == Fault("AppenderFlush", 0) \in fs
             destroyFails == Fault("AppenderDestroy", 0) \in fs
             err == IF d.err # {} THEN d.err
                    ELSE IF flushFails THEN {"duckdbErrFlush"}
                    ELSE IF destroyFails THEN {"errAppenderClose"} ELSE {}
             tr == d.tr \o <<Op("AppenderFlush", 0, 0)>>
                        \o (IF flushFails THEN <<Op("AppenderError", 0, 0)>> ELSE <<>>)
                        \o destroyTypeSlice
                        \o <<Op("AppenderDestroy", 0, IF destroyFails THEN 1 ELSE 0)>>
         IN  /\ aClosed' = TRUE
             /\ chunks' = <<>>
             /\ rowCount' = 0
             /\ chunkMem' = d.mem
             /\ appended' = NoAppends
             /\ appender' = Destroy(appender)
             /\ types' = [i \in 1..Len(types) |-> Destroy(types[i])]
             /\ selected' = <<>>  \* the destroyed appender holds no selection
             /\ history' = Record(history, <<>>, d.given, err # {})
             /\ AppReturn("Close", IF err # {} THEN {"invalidatedAppender"} \cup err ELSE {}, tr)
             /\ rowArg' = NoRow
             /\ UNCHANGED <<activeColumns, created>>

\* Appender.Close without its test of a.closed.
AppenderCloseUnguarded(fs) ==
    \E d \in {appendDataChunks(fs)} :
         LET flushFails == Fault("AppenderFlush", 0) \in fs
             destroyFails == Fault("AppenderDestroy", 0) \in fs
             err == d.err \cup (IF flushFails THEN {"duckdbErrFlush"} ELSE {})
                          \cup (IF destroyFails THEN {"errAppenderClose"} ELSE {})
             tr == d.tr \o <<Op("AppenderFlush", 0, 0)>>
                        \o (IF flushFails THEN <<Op("AppenderError", 0, 0)>> ELSE <<>>)
                        \o destroyTypeSlice
                        \o <<Op("AppenderDestroy", 0, IF destroyFails THEN 1 ELSE 0)>>
         IN  /\ aClosed' = TRUE
             /\ chunks' = <<>>
             /\ rowCount' = 0
             /\ chunkMem' = d.mem
             /\ appended' = NoAppends
             /\ appender' = Destroy(appender)
             /\ types' = [i \in 1..Len(types) |-> Destroy(types[i])]
             /\ selected' = <<>>  \* the destroyed appender holds no selection
             /\ history' = Record(history, <<>>, d.given, err # {})
             /\ AppReturn("Close", IF err # {} THEN {"invalidatedAppender"} \cup err ELSE {}, tr)
             /\ rowArg' = NoRow
             /\ UNCHANGED <<activeColumns, created>>

\* Appender.Close: errors.Join(errAppend, errFlush, errClose) is the set of the
\* three ("duckdbErrFlush": the engine's message after the failed flush, which
\* is another than its message after a failed append of a chunk); the op of
\* apiAppenderDestroy records the state it returned (1: apiStateError).
AppenderClose(fs) ==
    IF aClosed
    THEN /\ AppReturn("Close", {"errAppenderDoubleClose"}, <<>>)
         /\ UNCHANGED appVars
    ELSE \E d \in {appendDataChunks(fs)} :
         LET flushFails == Fault("AppenderFlush", 0) \in fs
             destroyFails == Fault("AppenderDestroy", 0) \in fs
             err == d.err \cup (IF flushFails THEN {"duckdbErrFlush"} ELSE {})
                          \cup (IF destroyFails THEN {"errAppenderClose"} ELSE {})
             tr == d.tr \o <<Op("AppenderFlush", 0, 0)>>
                        \o (IF flushFails THEN <<Op("AppenderError", 0, 0)>> ELSE <<>>)
                        \o destroyTypeSlice
                        \o <<Op("AppenderDestroy", 0, IF destroyFails THEN 1 ELSE 0)>>
         IN  /\ aClosed' = TRUE
             /\ chunks' = <<>>
             /\ rowCount' = 0
             /\ chunkMem' = d.mem
             /\ appended' = NoAppends
             /\ appender' = Destroy(appender)
             /\ types' = [i \in 1..Len(types) |-> Destroy(types[i])]
             /\ selected' = <<>>  \* the destroyed appender holds no selection
             /\ history' = Record(history, <<>>, d.given, err # {})
             /\ AppReturn("Close", IF err # {} THEN {"invalidatedAppender"} \cup err ELSE {}, tr)
             /\ rowArg' = NoRow
             /\ UNCHANGED <<activeColumns, created>>

\* mustChangeActiveColumnsSlice without its loop over the trailing columns:
\* only a column that becomes active counts as a change.
activeColumnsChangeOnGrowth(active) ==
    \E i \in 1..Len(columnNames) : active[i] /\ ~activeColumns[i]

\* What mustChangeActiveColumnsSlice and mustChangeActiveColumnsMap return
\* when they leave the bitmap active: a column became active or inactive.
activeColumnsChange(active) ==
    \E i \in 1..Len(columnNames) : active[i] # activeColumns[i]

\* mustChangeActiveColumnsSlice without its second loop: a trailing column
\* stays as it was.
mustChangeActiveColumnsSliceKeepsTrailing(n) ==
    [i \in 1..Len(columnNames) |-> i <= n \/ activeColumns[i]]

\* Appender.mustChangeActiveColumnsSlice: the bitmap it leaves for n values.
mustChangeActiveColumnsSlice(n) == [i \in 1..Len(columnNames) |-> i <= n]

\* The columns of the bitmap active, in table order.
activeIn(active) == SelectSeq([i \in 1..Len(columnNames) |-> i], LAMBDA i : active[i])

\* Appender.changeActiveColumns going on after a failed flush.
changeActiveColumnsNoAbort(active, fs) ==
    LET f == flush(fs)
        cols == activeIn(active)
    IN  [f EXCEPT !.err = {},
                  !.tr = Append(f.tr, Op("AppenderClearColumns", 0, 0))
                         \o [k \in 1..Len(cols) |-> Op("AppenderAddColumn", 0, cols[k])]]

\* Appender.changeActiveColumns towards the bitmap active; the k-th
\* apiAppenderAddColumn call fails with Fault("AppenderAddColumn", k).
changeActiveColumns(active, fs) ==
    LET f == flush(fs)
        clear == Append(f.tr, Op("AppenderClearColumns", 0, 0))
        cols == activeIn(active)
        adds == [k \in 1..Len(cols) |-> Op("AppenderAddColumn", 0, cols[k])]
        bad == {k \in 1..Len(cols) : Fault("AppenderAddColumn", k) \in fs}
    IN  IF f.err # {} THEN f
        ELSE IF Fault("AppenderClearColumns", 0) \in fs
        THEN [f EXCEPT !.err = {"duckdbErr"}, !.tr = Append(clear, Op("AppenderError", 0, 0))]
        ELSE IF bad # {}
        THEN [f EXCEPT !.err = {"duckdbErr"},
                       !.tr = clear \o SubSeq(adds, 1, Min(bad))
                                    \o <<Op("AppenderError", 0, 0)>>]
        ELSE [f EXCEPT !.tr = clear \o adds]

\* The engine's column selection after the calls tr: apiAppenderClearColumns
\* empties it and each apiAppenderAddColumn that follows adds its column; a
\* call that fails (apiAppenderError follows it) changes nothing.
selectionAfter(tr) ==
    LET clears == {k \in 1..Len(tr) : tr[k].op = "AppenderClearColumns"}
        failed(k) == k < Len(tr) /\ tr[k + 1].op = "AppenderError"
    IN  IF clears = {} \/ \E k \in clears : failed(k) THEN selected
        ELSE LET adds == SelectSeq(tr, LAMBDA o : o.op = "AppenderAddColumn")
                 n == IF tr[Len(tr)].op = "AppenderError" THEN Len(adds) - 1 ELSE Len(adds)
             IN  [k \in 1..n |-> adds[k].n]

\* newDataChunk allocating a chunk for every row.
newChunkNeededEveryRow(cs, rc) == TRUE

\* newDataChunk allocating a chunk only when none is buffered.
newChunkNeededWhenEmpty(cs, rc) == Len(cs) = 0

\* Appender.newDataChunk, line 244: with the chunks cs and the row count rc
\* a chunk is created (none exists, or the current one is full).
newChunkNeeded(cs, rc) == ~(rc # Capacity /\ Len(cs) # 0)

\* A behaviour makes an append that takes a new chunk (its change of the
\* active columns flushes the buffer, or the buffer is empty or full) only
\* while it may still create one.
withinBudget(active) ==
    (activeColumnsChange(active) \/ newChunkNeeded(chunks, rowCount)) => created < MaxChunks

\* AppendRow, lines 162-168: the SetValue calls for vals on row rc of chunk c,
\* up to and including the first one that fails.
RECURSIVE setValues(_, _, _, _)
setValues(vals, i, c, rc) ==
    IF i > Len(vals) THEN [err |-> {}, tr |-> <<>>]
    ELSE IF vals[i] = "bad"
    THEN [err |-> {"setValueError"}, tr |-> <<SetValueOp(c, rc, i)>>]
    ELSE LET rest == setValues(vals, i + 1, c, rc)
         IN  [rest EXCEPT !.tr = <<SetValueOp(c, rc, i)>> \o rest.tr]

\* Appender.AppendRow
AppendRow(vals, fs) ==
    IF aClosed
    THEN /\ AppReturn("AppendRow", {"errAppenderAppendAfterClose"}, <<>>)
         /\ UNCHANGED appVars
    ELSE IF Len(vals) > Len(columnNames)
    THEN \* mustChangeActiveColumnsSlice, lines 261-266: the first loop activates
         \* every column and then reads a.activeColumns[len(a.activeColumns)].
         /\ activeColumns' = mustChangeActiveColumnsSlice(Len(vals))
         /\ rowArg' = RowArg(Len(vals), {})
         /\ history' = Record(history, <<>>, <<>>, TRUE)
         /\ appended' = [appended EXCEPT !.failed = TRUE]
         /\ ret' = Result("AppendRow", "nil", {}, "IndexOutOfRange")
         /\ trace' = <<>>
         /\ UNCHANGED <<aClosed, appender, types, chunks, rowCount, chunkMem, created,
                        selected>>
         /\ UNCHANGED stmtOnly
    ELSE \E active \in {a \in {mustChangeActiveColumnsSlice(Len(vals))} : withinBudget(a)} :
         \E c \in {IF activeColumnsChange(active) THEN changeActiveColumns(active, fs)
                   ELSE [err |-> {}, tr |-> <<>>, given |-> <<>>, mem |-> chunkMem]} :
         \E change \in {activeColumnsChange(active)} :
         \E cs1 \in {IF change THEN <<>> ELSE chunks} :
         \E rc1 \in {IF change THEN 0 ELSE rowCount} :
         \E app1 \in {IF change THEN NoAppends ELSE appended} :
         \E need \in {newChunkNeeded(cs1, rc1)} :
         \E id \in {created + 1} :
         \E cs2 \in {IF need THEN Append(cs1, [id |-> id, rows |-> 0]) ELSE cs1} :
         \E rc2 \in {IF need THEN 0 ELSE rc1} :
         \E last \in {cs2[Len(cs2)].id} :
         \E v \in {setValues(vals, 1, last, rc2)} :
         \E init \in {IF need THEN <<Op("initFromTypes", id, 0)>> ELSE <<>>} :
         \E ok \in {c.err = {} /\ ~(need /\ Fault("initFromTypes", 0) \in fs) /\ v.err = {}} :
             /\ activeColumns' = active
             /\ rowArg' = RowArg(Len(vals), {})
             /\ history' = Record(history, IF ok THEN <<Slot(last, rc2)>> ELSE <<>>, c.given, ~ok)
             /\ UNCHANGED <<aClosed, appender, types>>
             /\ selected' = selectionAfter(c.tr)
             /\ IF c.err # {}
                THEN /\ chunks' = cs1 /\ rowCount' = rc1 /\ chunkMem' = c.mem
                     /\ appended' = [app1 EXCEPT !.failed = TRUE]
                     /\ UNCHANGED created
                     /\ AppReturn("AppendRow", {"errAppenderAppendRow"} \cup c.err, c.tr)
                ELSE IF need /\ Fault("initFromTypes", 0) \in fs
                THEN /\ chunks' = cs1 /\ rowCount' = rc1 /\ chunkMem' = c.mem
                     /\ appended' = [app1 EXCEPT !.failed = TRUE]
                     /\ UNCHANGED created
                     /\ AppReturn("AppendRow", {"errAppenderAppendRow", "initChunkError"},
                                  c.tr \o init)
                ELSE /\ need => created < MaxChunks
                     /\ created' = IF need THEN id ELSE created
                     /\ chunkMem' = IF need THEN [c.mem EXCEPT ![id] = "live"] ELSE c.mem
                     /\ IF v.err # {}
                        THEN /\ chunks' = cs2 /\ rowCount' = rowCountAfter(rc2, v.err)
                             /\ appended' = [app1 EXCEPT !.failed = TRUE]
                             /\ AppReturn("AppendRow", {"errAppenderAppendRow"} \cup v.err,
                                          c.tr \o init \o v.tr)
                        ELSE /\ chunks' = [cs2 EXCEPT ![Len(cs2)].rows = @ + 1]
                             /\ rowCount' = rowCountAfter(rc2, v.err)
                             /\ appended' = [app1 EXCEPT !.ok = @ + 1]
                             /\ AppReturn("AppendRow", {}, c.tr \o init \o v.tr)

\* The keys of a row map: the table's column names and one foreign name.
MapKeys == Range(columnNames) \cup {"qux"}
\* The maps AppendRowMap takes: a value for every key of a subset of the
\* column names, a refused value being that of the last of these columns, and
\* one map with the foreign name, which is never looked up.
ForeignMap == [k \in MapKeys \ {columnNames[1]} |-> "ok"]
RowMaps ==
    {m \in UNION {[D -> RowValues] : D \in SUBSET Range(columnNames)} :
        \A i \in 1..Len(columnNames) :
            columnNames[i] \in DOMAIN m /\ m[columnNames[i]] = "bad" =>
                \A j \in (i + 1)..Len(columnNames) : columnNames[j] \notin DOMAIN m}
        \cup {ForeignMap}

\* Appender.mustChangeActiveColumnsMap: the bitmap it leaves for the map m.
mustChangeActiveColumnsMap(m) == [i \in 1..Len(columnNames) |-> columnNames[i] \in DOMAIN m]

\* AppendRowMap, lines 230-238: the SetValue calls for the active columns from
\* column i on, on row rc of chunk c, up to and including the first that fails.
RECURSIVE setValuesMap(_, _, _, _, _)
setValuesMap(m, active, i, c, rc) ==
    IF i > Len(active) THEN [err |-> {}, tr |-> <<>>]
    ELSE IF ~active[i] THEN setValuesMap(m, active, i + 1, c, rc)
    ELSE IF m[columnNames[i]] = "bad"
    THEN [err |-> {"setValueError"}, tr |-> <<SetValueOp(c, rc, i)>>]
    ELSE LET rest == setValuesMap(m, active, i + 1, c, rc)
         IN  [rest EXCEPT !.tr = <<SetValueOp(c, rc, i)>> \o rest.tr]

\* Appender.AppendRowMap
AppendRowMap(m, fs) ==
    IF aClosed
    THEN /\ AppReturn("AppendRowMap", {"errAppenderAppendAfterClose"}, <<>>)
         /\ UNCHANGED appVars
    ELSE \E active \in {a \in {mustChangeActiveColumnsMap(m)} : withinBudget(a)} :
         \E c \in {IF activeColumnsChange(active) THEN changeActiveColumns(active, fs)
                   ELSE [err |-> {}, tr |-> <<>>, given |-> <<>>, mem |-> chunkMem]} :
         \E change \in {activeColumnsChange(active)} :
         \E cs1 \in {IF change THEN <<>> ELSE chunks} :
         \E rc1 \in {IF change THEN 0 ELSE rowCount} :
         \E app1 \in {IF change THEN NoAppends ELSE appended} :
         \E need \in {newChunkNeeded(cs1, rc1)} :
         \E id \in {created + 1} :
         \E cs2 \in {IF need THEN Append(cs1, [id |-> id, rows |-> 0]) ELSE cs1} :
         \E rc2 \in {IF need THEN 0 ELSE rc1} :
         \E last \in {cs2[Len(cs2)].id} :
         \E v \in {setValuesMap(m, active, 1, last, rc2)} :
         \E init \in {IF need THEN <<Op("initFromTypes", id, 0)>> ELSE <<>>} :
         \E ok \in {c.err = {} /\ ~(need /\ Fault("initFromTypes", 0) \in fs) /\ v.err = {}} :
             /\ activeColumns' = active
             /\ rowArg' = RowArg(-1, DOMAIN m)
             /\ history' = Record(history, IF ok THEN <<Slot(last, rc2)>> ELSE <<>>, c.given, ~ok)
             /\ UNCHANGED <<aClosed, appender, types>>
             /\ selected' = selectionAfter(c.tr)
             /\ IF c.err # {}
                THEN /\ chunks' = cs1 /\ rowCount' = rc1 /\ chunkMem' = c.mem
                     /\ appended' = [app1 EXCEPT !.failed = TRUE]
                     /\ UNCHANGED created
                     /\ AppReturn("AppendRowMap", {"errAppenderAppendRow"} \cup c.err, c.tr)
                ELSE IF need /\ Fault("initFromTypes", 0) \in fs
                THEN /\ chunks' = cs1 /\ rowCount' = rc1 /\ chunkMem' = c.mem
                     /\ appended' = [app1 EXCEPT !.failed = TRUE]
                     /\ UNCHANGED created
                     /\ AppReturn("AppendRowMap", {"initChunkError"}, c.tr \o init)
                ELSE /\ need => created < MaxChunks
                     /\ created' = IF need THEN id ELSE created
                     /\ chunkMem' = IF need THEN [c.mem EXCEPT ![id] = "live"] ELSE c.mem
                     /\ IF v.err # {}
                        THEN /\ chunks' = cs2 /\ rowCount' = rowCountAfter(rc2, v.err)
                             /\ appended' = [app1 EXCEPT !.failed = TRUE]
                             /\ AppReturn("AppendRowMap", v.err, c.tr \o init \o v.tr)
                        ELSE /\ chunks' = [cs2 EXCEPT ![Len(cs2)].rows = @ + 1]
                             /\ rowCount' = rowCountAfter(rc2, v.err)
                             /\ appended' = [app1 EXCEPT !.ok = @ + 1]
                             /\ AppReturn("AppendRowMap", {}, c.tr \o init \o v.tr)

\* The faults a call may meet: at most one in an append or a flush; in Close
\* at most one at a chunk, with or without the two of the handle.
\* A closed appender makes no call a fault could hit, and an append that
\* keeps the active columns (change is false) only allocates and writes.
AppendFaults(change) ==
    IF aClosed THEN {{}}
    ELSE IF ~change THEN AtMostOne({Fault("initFromTypes", 0)})
    ELSE AtMostOne(ChunkFaults \cup {Fault("AppenderFlush", 0),
                    Fault("AppenderClearColumns", 0), Fault("initFromTypes", 0)}
                    \cup {Fault("AppenderAddColumn", k) : k \in 1..Len(columnNames)})
FlushFaults == AtMostOne(ChunkFaults \cup {Fault("AppenderFlush", 0)})
CloseFaults == {c \cup h : c \in AtMostOne(ChunkFaults),
                           h \in SUBSET {Fault("AppenderFlush", 0), Fault("AppenderDestroy", 0)}}

NextApp ==
    \/ \E vals \in RowLists :
          \E fs \in AppendFaults(/\ Len(vals) <= Len(columnNames)
                                 /\ activeColumnsChange(mustChangeActiveColumnsSlice(Len(vals)))) :
              AppendRow(vals, fs)
    \/ \E m \in RowMaps :
          \E fs \in AppendFaults(activeColumnsChange(mustChangeActiveColumnsMap(m))) :
              AppendRowMap(m, fs)
    \/ \E fs \in FlushFaults : Flush(fs)
    \/ \E fs \in CloseFaults : AppenderClose(fs)

SpecApp == InitApp /\ [][NextApp]_vars

----
\* Claims about the appender's buffer.

\* An AppendRow call returns in this step.
appendStep ==
    /\ ret'.call = "AppendRow" /\ ret'.panic = "" /\ ~aClosed
    /\ <<ret, trace, appended>>' # <<ret, trace, appended>>

\* C19: after N appends that all succeeded since the buffer was last emptied,
\* ceil(N / Capacity) chunks are buffered, every chunk but the last holds
\* Capacity rows and the last one the remaining rowCount rows; an append
\* allocates a chunk only when none is buffered or the last one holds
\* Capacity rows, and writes its values to the next row of the last chunk.
C19_ChunkCount ==
    /\ [](~appended.failed =>
            /\ Len(chunks) = (appended.ok + Capacity - 1) \div Capacity
            /\ \A i \in 1..(Len(chunks) - 1) : chunks[i].rows = Capacity
            /\ chunks # <<>> =>
                  /\ chunks[Len(chunks)].rows = rowCount
                  /\ rowCount = appended.ok - (Len(chunks) - 1) * Capacity)
    /\ [][appendStep =>
            /\ created' # created =>
                  /\ created' = created + 1
                  /\ chunks'[Len(chunks')].id = created'
                  /\ \/ chunks = <<>>
                     \/ chunks[Len(chunks)].rows = Capacity
                     \/ idsOf(chunks') = {created'}
            /\ ret'.err = {} =>
                  /\ chunks' # <<>>
                  /\ \A k \in 1..Len(trace') : trace'[k].op = "SetValue" =>
                        /\ trace'[k].chunk = chunks'[Len(chunks')].id
                        /\ trace'[k].n = rowCount' - 1
                        /\ trace'[k].n < Capacity]_vars

\* C19 witness: one row more than two full chunks was appended without a
\* failure or a flush.
C19_Witness ==
    /\ ~appended.failed
    /\ appended.ok = 2 * Capacity + 1
    /\ Len(chunks) = 3
    /\ rowCount = 1
    /\ ret.call = "AppendRow"

\* The calls of tr whose op is in ops, in their order.
callsOf(tr, ops) == SelectSeq(tr, LAMBDA o : o.op \in ops)

\* The chunks buffered before this step are no longer buffered after it.
flushStep == chunks # <<>> /\ idsOf(chunks') \cap idsOf(chunks) = {}

\* The calls a flush of the buffered chunks makes when nothing fails: per
\* chunk in buffer order SetSize (Capacity, for the last chunk rowCount) and
\* then the engine's append.
fullFlush ==
    [k \in 1..(2 * Len(chunks)) |->
        LET i == (k + 1) \div 2
        IN  IF k % 2 = 1
            THEN Op("SetSize", chunks[i].id, IF i = Len(chunks) THEN rowCount ELSE Capacity)
            ELSE Op("AppendDataChunk", chunks[i].id, 0)]

\* C20: a flush sets the size of and hands over the buffered chunks in buffer
\* order (Capacity for every chunk but the last, rowCount for the last),
\* stopping only at a call that fails; after that loop it releases every
\* buffered chunk once, in buffer order, the chunks at and after a failure
\* included; no chunk is released twice and none stays allocated unbuffered.
C20_FlushOrderAndRelease ==
    /\ [](\A k \in 1..MaxChunks :
            /\ chunkMem[k] # "doubleDestroyed"
            /\ chunkMem[k] = "live" => k \in idsOf(chunks))
    /\ [][flushStep =>
            LET proc == callsOf(trace', {"SetSize", "AppendDataChunk"})
                rel == callsOf(trace', {"close"})
            IN  /\ Len(proc) <= Len(fullFlush)
                /\ proc = SubSeq(fullFlush, 1, Len(proc))
                /\ Len(proc) < Len(fullFlush) => ret'.err # {}
                /\ rel = [i \in 1..Len(chunks) |-> Op("close", chunks[i].id, 0)]
                /\ \A k, l \in 1..Len(trace') :
                      (trace'[k].op = "close" /\ trace'[l].op \in {"SetSize", "AppendDataChunk"})
                          => l < k
                /\ \A i \in 1..Len(chunks) :
                      /\ chunkMem[chunks[i].id] = "live"
                      /\ chunkMem'[chunks[i].id] = "destroyed"]_vars

\* C20 witness: Flush failed at the engine's append of the first of two
\* buffered chunks and both chunks were released.
C20_Witness ==
    /\ ret.call = "Flush"
    /\ "duckdbErr" \in ret.err
    /\ chunks = <<>>
    /\ Len(callsOf(trace, {"AppendDataChunk"})) = 1
    /\ Len(callsOf(trace, {"close"})) = 2
    /\ Cardinality({k \in 1..MaxChunks : chunkMem[k] = "destroyed"}) = 2

\* C20 witness: Flush failed at SetSize of the second of two buffered chunks.
C20_WitnessSetSize ==
    /\ ret.call = "Flush"
    /\ "setSizeError" \in ret.err
    /\ Len(callsOf(trace, {"SetSize"})) = 2
    /\ Len(callsOf(trace, {"AppendDataChunk"})) = 1
    /\ Len(callsOf(trace, {"close"})) = 2

----
\* Claims about the state a flush leaves.

appendCalls == {"AppendRow", "AppendRowMap"}

\* This step is a call that flushes the buffered chunks: Flush, the first
\* Close, or an append whose active-column set differs from the bitmap.
flushingStep ==
    \/ ret'.call = "Flush"
    \/ ret'.call = "Close" /\ ~aClosed
    \/ ret'.call \in appendCalls /\ ret'.panic = "" /\ ~aClosed /\ activeColumns' # activeColumns

\* The SetValue calls of the call that returned in this step.
setValueCalls == callsOf(trace', {"SetValue"})

\* C21: after every flush of the buffered chunks (by Flush, Close or an
\* active-column change), failed or not, no chunk buffered before it is still
\* buffered and all of them are released; Flush and Close leave the chunk list
\* empty and the row counter 0; an append that flushed, or that finds the list
\* empty, writes only to row 0 of a chunk created in that call, which was
\* never released; no buffered chunk is a released one.
C21_FlushResets ==
    /\ [](\A i \in 1..Len(chunks) : chunkMem[chunks[i].id] = "live")
    /\ [][(flushingStep =>
               /\ idsOf(chunks') \cap idsOf(chunks) = {}
               /\ \A i \in 1..Len(chunks) : chunkMem'[chunks[i].id] = "destroyed"
               /\ (ret'.call \in {"Flush", "Close"} => chunks' = <<>> /\ rowCount' = 0)
               /\ (ret'.err # {} /\ setValueCalls = <<>> => chunks' = <<>> /\ rowCount' = 0))
           /\
           ((ret'.call \in appendCalls /\ ret'.panic = "" /\ ~aClosed
                /\ (flushingStep \/ chunks = <<>>)) =>
               /\ Len(chunks') <= 1
               /\ rowCount' = (IF ret'.err = {} THEN 1 ELSE 0)
               /\ \A k \in 1..Len(setValueCalls) :
                     /\ setValueCalls[k].n = 0
                     /\ setValueCalls[k].chunk = created'
                     /\ created' = created + 1
                     /\ chunkMem[created'] = "none"
                     /\ chunks' = <<[id |-> created', rows |-> rowCount']>>)]_vars

\* C21 witness: a flush failed at the engine's append of the second of two
\* buffered chunks and left no chunk and no row.
C21_Witness ==
    /\ ret.call = "Flush"
    /\ ret.err # {}
    /\ Len(callsOf(trace, {"AppendDataChunk"})) = 2
    /\ Len(callsOf(trace, {"close"})) = 2
    /\ chunks = <<>>
    /\ rowCount = 0

\* C21 witness: an append changed the active columns, flushed two chunks and
\* wrote its row to row 0 of the third.
C21_WitnessAppend ==
    /\ ret.call \in appendCalls
    /\ ret.err = {}
    /\ Len(callsOf(trace, {"close"})) = 2
    /\ callsOf(trace, {"SetValue"}) # <<>>
    /\ chunks = <<[id |-> 3, rows |-> 1]>>
    /\ rowCount = 1

----
\* Claims about Close.

\* This step is the first Close of the appender.
firstClose == ret'.call = "Close" /\ ~aClosed

\* The positions in tr of the calls whose op is in ops.
indexesOf(tr, ops) == {k \in 1..Len(tr) : tr[k].op \in ops}

\* In tr the engine call op was followed by a read of the appender's error.
failedIn(tr, op) == \E k \in 1..(Len(tr) - 1) : tr[k].op = op /\ tr[k + 1].op = "AppenderError"

\* In tr the hand-over loop stopped at a SetSize call.
setSizeFailedIn(tr) ==
    LET proc == callsOf(tr, {"SetSize", "AppendDataChunk"})
    IN  proc # <<>> /\ proc[Len(proc)].op = "SetSize"

\* C22: the first Close hands over the buffered chunks (releasing every one
\* of them), then calls the engine's flush once, then destroys the appender
\* handle once as its last call, whichever of the earlier steps failed; it
\* returns nil when none failed and otherwise one error that holds every
\* failure that occurred (hand-over, flush, destroy).
C22_CloseRunsAllSteps ==
    [][firstClose =>
        LET tr == trace'
            chunkCalls == indexesOf(tr, {"SetSize", "AppendDataChunk", "close"})
            flushes == indexesOf(tr, {"AppenderFlush"})
            destroys == indexesOf(tr, {"AppenderDestroy"})
            causes == (IF setSizeFailedIn(tr) THEN {"setSizeError"} ELSE {})
                      \cup (IF failedIn(tr, "AppendDataChunk") THEN {"duckdbErr"} ELSE {})
                      \cup (IF failedIn(tr, "AppenderFlush") THEN {"duckdbErrFlush"} ELSE {})
                      \cup (IF tr[Len(tr)].n = 1 THEN {"errAppenderClose"} ELSE {})
        IN  /\ callsOf(tr, {"close"}) = [i \in 1..Len(chunks) |-> Op("close", chunks[i].id, 0)]
            /\ Cardinality(flushes) = 1
            /\ destroys = {Len(tr)}
            /\ \A k \in chunkCalls, f \in flushes : k < f
            /\ chunks' = <<>>
            /\ aClosed'
            /\ appender = "live" /\ appender' = "destroyed"
            /\ ret'.err = (IF causes = {} THEN {} ELSE {"invalidatedAppender"} \cup causes)]_vars

\* C22 witness: in the first Close the hand-over, the flush and the destroy
\* failed, and the error returned holds the three failures.
C22_Witness ==
    /\ ret.call = "Close"
    /\ {"duckdbErr", "duckdbErrFlush", "errAppenderClose"} \subseteq ret.err
    /\ Len(callsOf(trace, {"close"})) = 2
    /\ appender = "destroyed"

\* C22 witness: a Close without a failure returned nil.
C22_WitnessNil ==
    /\ ret.call = "Close"
    /\ ret.err = {}
    /\ Len(callsOf(trace, {"AppendDataChunk"})) = 2
    /\ appender = "destroyed"

----
\* Claims about the closed appender.

\* The native handles the appender owns: the appender and the column types.
ownedHandles == {appender} \cup Range(types)

\* C23: the appender handle and the column types are destroyed exactly once,
\* by the first Close, whatever that Close returns; a later Close returns the
\* double-close error and an AppendRow or AppendRowMap after Close the
\* append-after-close error, and these calls make no engine call and leave
\* the buffer, the row counter and the bitmap as they are.
C23_ClosedOnce ==
    /\ [](ownedHandles = (IF aClosed THEN {"destroyed"} ELSE {"live"}))
    /\ [][/\ (indexesOf(trace', {"AppenderDestroy", "DestroyLogicalType"}) # {} =>
                  /\ firstClose
                  /\ Len(callsOf(trace', {"AppenderDestroy"})) = 1
                  /\ callsOf(trace', {"DestroyLogicalType"}) = destroyTypeSlice)
           /\ (firstClose => aClosed' /\ ownedHandles' = {"destroyed"})
           /\ (aClosed => aClosed')
           /\ ((aClosed /\ ret'.call \in appendCalls \cup {"Close"}) =>
                  /\ ret'.err = (IF ret'.call = "Close" THEN {"errAppenderDoubleClose"}
                                  ELSE {"errAppenderAppendAfterClose"})
                  /\ trace' = <<>>
                  /\ UNCHANGED <<chunks, rowCount, activeColumns, created, chunkMem, history>>)]_vars

\* C23 witness: after a Close that reported an error, an append was refused
\* as an append after Close.
C23_Witness ==
    /\ aClosed
    /\ history.failed
    /\ ret.call \in appendCalls
    /\ ret.err = {"errAppenderAppendAfterClose"}
    /\ ownedHandles = {"destroyed"}

\* C23 witness: a second Close was refused as a double close.
C23_WitnessClose ==
    /\ aClosed
    /\ ret.call = "Close"
    /\ ret.err = {"errAppenderDoubleClose"}
    /\ ownedHandles = {"destroyed"}

----
\* Claims about the active columns.

\* This step is an append on an open appender that returned and whose
\* active-column set differs from that of the previous append (the bitmap; at
\* first: every column).
changeStep ==
    ret'.call \in appendCalls /\ ret'.panic = "" /\ ~aClosed /\ activeColumns' # activeColumns

\* The calls of an append that write the row: the allocation of its chunk
\* and SetValue.
rowOps == {"initFromTypes", "SetValue"}

\* A step of the active-column change failed in tr.
changeFailedIn(tr) ==
    \/ setSizeFailedIn(tr)
    \/ \E op \in {"AppendDataChunk", "AppenderFlush", "AppenderClearColumns",
                   "AppenderAddColumn"} : failedIn(tr, op)

\* C24: an append whose active-column set differs from the previous one
\* first flushes every buffered chunk (hand-over, release, engine flush),
\* then clears the engine's column selection once, then adds the active
\* columns in table order, and only then allocates a chunk and writes the
\* row; when one of these steps fails no later step is made, the append
\* returns the error and no row is written or counted.
C24_ChangeSequence ==
    [][changeStep =>
        \E tr \in {trace'} :
        \E handOver \in {indexesOf(tr, {"SetSize", "AppendDataChunk", "close"})} :
        \E flushes \in {indexesOf(tr, {"AppenderFlush"})} :
        \E clears \in {indexesOf(tr, {"AppenderClearColumns"})} :
        \E adds \in {indexesOf(tr, {"AppenderAddColumn"})} :
        \E writes \in {indexesOf(tr, rowOps)} :
        \E wanted \in {[k \in 1..Len(activeIn(activeColumns')) |->
                          Op("AppenderAddColumn", 0, activeIn(activeColumns')[k])]} :
        \E added \in {callsOf(tr, {"AppenderAddColumn"})} :
            /\ callsOf(tr, {"close"}) = [i \in 1..Len(chunks) |-> Op("close", chunks[i].id, 0)]
            /\ Cardinality(flushes) <= 1 /\ Cardinality(clears) <= 1
            /\ \A h \in handOver, f \in flushes : h < f
            /\ \A f \in flushes, c \in clears : f < c
            /\ \A c \in clears, a \in adds : c < a
            /\ \A a \in handOver \cup flushes \cup clears \cup adds, w \in writes : a < w
            /\ Len(added) <= Len(wanted) /\ added = SubSeq(wanted, 1, Len(added))
            /\ (adds # {} => clears # {})
            /\ (clears # {} => flushes # {})
            /\ IF changeFailedIn(tr)
               THEN /\ ret'.err # {}
                    /\ (setSizeFailedIn(tr) \/ failedIn(tr, "AppendDataChunk") => flushes = {})
                    /\ (failedIn(tr, "AppenderFlush") => clears = {})
                    /\ (failedIn(tr, "AppenderClearColumns") => adds = {})
                    /\ (failedIn(tr, "AppenderAddColumn") =>
                          tr[Len(tr) - 1].op = "AppenderAddColumn")
                    /\ writes = {}
                    /\ chunks' = <<>> /\ rowCount' = 0
                    /\ history'.failed
               ELSE /\ flushes # {} /\ clears # {}
                    /\ added = wanted
                    /\ (ret'.err = {} => writes # {} \/ wanted = <<>>)]_vars

\* C24 witness: an append with another column set flushed two chunks, cleared
\* the selection, added one column and wrote its row.
C24_Witness ==
    /\ ret.call \in appendCalls
    /\ ret.err = {}
    /\ Len(callsOf(trace, {"AppendDataChunk"})) = 2
    /\ Len(callsOf(trace, {"AppenderClearColumns"})) = 1
    /\ Len(callsOf(trace, {"AppenderAddColumn"})) = 1
    /\ Len(callsOf(trace, {"SetValue"})) = 1

\* C24 witness: the second add-column call of an active-column change failed
\* and the append wrote no row.
C24_WitnessAddColumn ==
    /\ ret.call \in appendCalls
    /\ ret.err # {}
    /\ Len(callsOf(trace, {"AppenderAddColumn"})) = 2
    /\ failedIn(trace, "AppenderAddColumn")
    /\ callsOf(trace, rowOps) = <<>>
    /\ chunks = <<>>

\* This step is an append on an open appender that returned (AppendRow with
\* at most as many values as the table has columns).
openAppendStep == ret'.call \in appendCalls /\ ret'.panic = "" /\ ~aClosed

\* The calls of a flush and those of the engine's column selection.
flushOps == {"SetSize", "AppendDataChunk", "close", "AppenderFlush"}
selectionOps == {"AppenderClearColumns", "AppenderAddColumn"}

\* C25: an append on an open appender makes the calls of a flush if and only
\* if its active-column set differs from that of the previous append (the
\* bitmap; at first every column is active); an append with the same set
\* makes no flush call and no column-selection call and keeps the buffered
\* chunks.
C25_FlushIffChange ==
    [][openAppendStep =>
        /\ indexesOf(trace', flushOps) # {} <=> activeColumns' # activeColumns
        /\ activeColumns' = activeColumns =>
              /\ indexesOf(trace', selectionOps) = {}
              /\ \A i \in 1..Len(chunks) : chunks'[i].id = chunks[i].id
              /\ history'.handed = history.handed \/ history'.failed
        /\ activeColumns' # activeColumns /\ ~history'.failed =>
              history'.handed = history.handed \o
                  [i \in 1..Len(chunks) |->
                      [id |-> chunks[i].id,
                       size |-> IF i = Len(chunks) THEN rowCount ELSE Capacity]]]_vars

\* C25 witness: three rows were appended, the last one a full row; the second
\* and the third append each flushed the one-row chunk of the row before (as
\* after a full, a partial and a full row), and the third row is buffered in
\* the third chunk.
C25_Witness ==
    /\ ret.call \in appendCalls
    /\ ret.err = {}
    /\ ~history.failed
    /\ history.appends = 3
    /\ history.handed = <<[id |-> 1, size |-> 1], [id |-> 2, size |-> 1]>>
    /\ chunks = <<[id |-> 3, rows |-> 1]>>
    /\ activeColumns = <<TRUE, TRUE>>

\* C25 witness: three appends with the same partial column set after a full
\* row: the change flushed once, the run after it not at all.
C25_WitnessRun ==
    /\ ret.call \in appendCalls
    /\ ~history.failed
    /\ history.appends = 4
    /\ history.handed = <<[id |-> 1, size |-> 1]>>
    /\ Len(chunks) = 2
    /\ activeColumns = <<TRUE, FALSE>>
    /\ trace # <<>> /\ \A k \in 1..Len(trace) : trace[k].op \in rowOps

\* C26: after an append on the open appender, failed or not, the bitmap is
\* true exactly for the first k columns when AppendRow got k values (k at
\* most the column count), and exactly for the table's columns whose name is
\* a key of m when AppendRowMap got m; SetValue is called only for active
\* columns, once per column and in table order, on the current row of the
\* last chunk, and for every active column when the append succeeds.
C26_ActiveColumns ==
    [][openAppendStep =>
        LET cols == [k \in 1..Len(setValueCalls) |-> setValueCalls[k].col]
            row == IF ret'.err = {} THEN rowCount' - 1 ELSE rowCount'
        IN  /\ ret'.call = "AppendRow" =>
                  /\ rowArg'.n \in 0..Len(columnNames)
                  /\ activeColumns' = [i \in 1..Len(columnNames) |-> i <= rowArg'.n]
            /\ ret'.call = "AppendRowMap" =>
                  activeColumns' = [i \in 1..Len(columnNames) |-> columnNames[i] \in rowArg'.keys]
            /\ Len(cols) <= Len(activeIn(activeColumns'))
            /\ cols = SubSeq(activeIn(activeColumns'), 1, Len(cols))
            /\ ret'.err = {} => cols = activeIn(activeColumns')
            /\ \A k \in 1..Len(setValueCalls) :
                  /\ setValueCalls[k].chunk = chunks'[Len(chunks')].id
                  /\ setValueCalls[k].n = row]_vars

\* C26 witness: after two full rows AppendRow got one value: the second
\* column is inactive and only the first was written.
C26_Witness ==
    /\ ret.call = "AppendRow"
    /\ ret.err = {}
    /\ rowArg.n = 1
    /\ activeColumns = <<TRUE, FALSE>>
    /\ callsOf(trace, {"SetValue"}) = <<SetValueOp(2, 0, 1)>>
    /\ history.handed = <<[id |-> 1, size |-> 2]>>

\* C26 witness: AppendRowMap got a value for the second column and for a
\* name that is no column: only the second column is active and written.
C26_WitnessMap ==
    /\ ret.call = "AppendRowMap"
    /\ ret.err = {}
    /\ rowArg.keys = {"baz", "qux"}
    /\ activeColumns = <<FALSE, TRUE>>
    /\ Len(callsOf(trace, {"SetValue"})) = 1
    /\ callsOf(trace, {"SetValue"})[1].col = 2

\* The buffered chunks that hold a row.
chunksWithRows == {chunks[i].id : i \in {j \in 1..Len(chunks) : chunks[j].rows > 0}}

\* C27: the bitmap changes only in an append, and a step that changes it
\* leaves no chunk buffered that held a row before the step, every such chunk
\* having been released: in no state does the bitmap hold a new column set
\* while rows buffered under the previous set are still buffered.
C27_BitmapChangesAfterFlush ==
    [][activeColumns' # activeColumns =>
        /\ ret'.call \in appendCalls
        /\ chunksWithRows \cap idsOf(chunks') = {}
        /\ \A c \in chunksWithRows : chunkMem'[c] = "destroyed"]_vars

----
\* Claims about the rows the engine receives.

\* The rows of the chunks cs (each with its id and size), in their order.
RECURSIVE rowsOfChunks(_)
rowsOfChunks(cs) ==
    IF cs = <<>> THEN <<>>
    ELSE [r \in 1..cs[1].size |-> Slot(cs[1].id, r - 1)] \o rowsOfChunks(Tail(cs))

\* The buffered chunks with the size a flush would give them.
buffered ==
    [i \in 1..Len(chunks) |->
        [id |-> chunks[i].id, size |-> IF i = Len(chunks) THEN rowCount ELSE Capacity]]

\* The sum of the sizes of the chunks cs.
RECURSIVE sizeSum(_)
sizeSum(cs) == IF cs = <<>> THEN 0 ELSE cs[1].size + sizeSum(Tail(cs))

\* C28: while no call has failed, the rows of the chunks the engine took,
\* followed by the rows still buffered, are the rows the successful appends
\* wrote, each once and in the order of the appends; after Close none is
\* buffered, so the sizes of the chunks handed over add up to the number of
\* successful appends.
C28_RowsHandedOnceInOrder ==
    ~history.failed =>
        /\ Len(history.slots) = history.appends
        /\ rowsOfChunks(history.handed) \o rowsOfChunks(buffered) = history.slots
        /\ aClosed =>
              /\ rowsOfChunks(history.handed) = history.slots
              /\ sizeSum(history.handed) = history.appends

\* C28 witness: four rows were appended with a Flush or a change of the
\* column set in between, Close returned nil and the engine took three chunks.
C28_Witness ==
    /\ aClosed
    /\ ret.call = "Close"
    /\ ret.err = {}
    /\ ~history.failed
    /\ history.appends = 4
    /\ Len(history.handed) = 3
    /\ sizeSum(history.handed) = 4

----
\* Claims about Flush.

\* C29: Flush, failed or not, leaves the closed flag, the appender handle,
\* the column types and the bitmap as they are (the column names never
\* change), and releases none of the handles; an append that follows a Flush
\* on an open appender is not refused as an append after Close.
C29_FlushKeepsOpen ==
    [][/\ ret'.call = "Flush" =>
              /\ UNCHANGED <<aClosed, appender, types, activeColumns>>
              /\ indexesOf(trace', {"AppenderDestroy", "DestroyLogicalType"}) = {}
       /\ (ret.call = "Flush" /\ ~aClosed /\ ret'.call \in appendCalls) =>
              "errAppenderAppendAfterClose" \notin ret'.err]_vars

\* C29 witness: after a call had failed and an earlier call had released
\* the first chunk, an AppendRow buffered its row in a second chunk.
C29_WitnessAppend ==
    /\ ret.call = "AppendRow"
    /\ ret.err = {}
    /\ ~aClosed
    /\ history.failed
    /\ chunks = <<[id |-> 2, rows |-> 1]>>
    /\ chunkMem[1] = "destroyed"
    /\ callsOf(trace, {"close"}) = <<>>

\* C29 witness: a Flush failed on an open appender and left it open.
C29_Witness ==
    /\ ret.call = "Flush"
    /\ "errAppenderFlush" \in ret.err
    /\ ~aClosed
    /\ ownedHandles = {"live"}

----
\* NewAppender (specification SpecNew).

\* The driver.Conn handed to NewAppender: not a *Conn, a closed *Conn, an
\* open *Conn.
ConnKinds == {"foreign", "closed", "open"}
\* The column types of the table; the table has at most as many columns as
\* columnNames names, and column i is called columnNames[i].
TableTypes == {"INTEGER", "VARCHAR", "LIST"} \cup unsupportedTypeToStringMap
TableTypeLists == SeqsUpTo(TableTypes, Len(columnNames))
\* The engine call of NewAppender that returns apiStateError (or none).
NewFaults == {"none", "AppenderCreateExt", "TableDescriptionCreateExt"}

\* Before NewAppender is called: no appender, no native handle.
InitNew ==
    /\ InitStmt
    /\ preparedStmt = "nil"
    /\ namedArgs = <<>>
    /\ paramTypes = <<>>
    /\ aClosed = FALSE
    /\ appender = "none"
    /\ chunks = <<>>
    /\ rowCount = 0
    /\ activeColumns = <<>>
    /\ chunkMem = [k \in 1..MaxChunks |-> "none"]
    /\ created = 0
    /\ appended = NoAppends
    /\ types = <<>>
    /\ selected = <<>>
    /\ history = [appends |-> 0, slots |-> <<>>, handed |-> <<>>, failed |-> FALSE]
    /\ rowArg = NoRow
    /\ driverConn \in ConnKinds
    /\ tableTypes \in TableTypeLists
    /\ tableDesc = "none"

\* NewAppender, lines 70-88: the calls of the loop from column i on and the
\* column at which it stops for its unsupported type (0: it runs to the end).
RECURSIVE columnLoop(_)
columnLoop(i) ==
    IF i > Len(tableTypes) THEN [tr |-> <<>>, bad |-> 0]
    ELSE LET calls == <<Op("AppenderColumnType", 0, i),
                        Op("TableDescriptionGetColumnName", 0, i),
                        Op("GetTypeId", 0, i)>>
         IN  IF tableTypes[i] \in unsupportedTypeToStringMap
             THEN [tr |-> calls, bad |-> i]
             ELSE LET rest == columnLoop(i + 1)
                  IN  [tr |-> calls \o rest.tr, bad |-> rest.bad]

\* NewAppender refusing column u without destroying the types it collected.
refuseUnsupportedLeaksTypes(u) ==
    [types |-> [i \in 1..u |-> "live"],
     appender |-> Destroy("live"),
     tr |-> <<Op("AppenderDestroy", 0, 0)>>]

\* NewAppender, lines 83-86: column u has an unsupported type; the types
\* collected so far (column u included) and the appender are destroyed.
refuseUnsupported(u) ==
    [types |-> [i \in 1..u |-> Destroy("live")],
     appender |-> Destroy("live"),
     tr |-> [i \in 1..u |-> Op("DestroyLogicalType", 0, i)] \o <<Op("AppenderDestroy", 0, 0)>>]

\* NewAppender returns val and err after the calls tr, with the native
\* handles a (appender), d (table description) and ts (types).
NewReturn(val, err, tr, a, d, ts) ==
    /\ ret' = Result("NewAppender", val, err, "")
    /\ trace' = tr
    /\ appender' = a
    /\ tableDesc' = d
    /\ types' = ts
    /\ selected' = IF err = {} THEN [i \in 1..Len(ts) |-> i] ELSE selected
    /\ activeColumns' = IF err = {} THEN [i \in 1..Len(ts) |-> TRUE] ELSE activeColumns
    /\ UNCHANGED <<stmtVars, execVars, badCalls, bindVars, driverConn, tableTypes>>
    /\ UNCHANGED <<aClosed, chunks, rowCount, chunkMem, created, appended, history, rowArg>>

\* NewAppender; fault is the engine call that fails.
NewAppender(fault) ==
    /\ ret.call = "none"
    /\ IF driverConn = "foreign"
       THEN NewReturn("nil", {Err("errInvalidCon")}, <<>>, appender, tableDesc, types)
       ELSE IF driverConn = "closed"
       THEN NewReturn("nil", {Err("errClosedCon")}, <<>>, appender, tableDesc, types)
       ELSE IF fault = "AppenderCreateExt"
       THEN NewReturn("nil", {Err("errAppenderCreation"), Err("duckdbErr")},
                      <<Op("AppenderCreateExt", 0, 0), Op("AppenderError", 0, 0),
                        Op("AppenderDestroy", 0, 0)>>,
                      Destroy("error"), tableDesc, types)
       ELSE IF fault = "TableDescriptionCreateExt"
       THEN NewReturn("nil", {Err("errTableDescCreation"), Err("duckdbErr")},
                      <<Op("AppenderCreateExt", 0, 0), Op("TableDescriptionCreateExt", 0, 0),
                        Op("AppenderDestroy", 0, 0), Op("TableDescriptionError", 0, 0),
                        Op("TableDescriptionDestroy", 0, 0)>>,
                      Destroy("live"), Destroy("error"), types)
       ELSE LET l == columnLoop(1)
                r == refuseUnsupported(l.bad)
                start == <<Op("AppenderCreateExt", 0, 0), Op("TableDescriptionCreateExt", 0, 0),
                           Op("AppenderColumnCount", 0, 0)>>
                last == <<Op("TableDescriptionDestroy", 0, 0)>>
            IN  IF l.bad # 0
                THEN NewReturn("nil",
                               {Err("errAppenderCreation"),
                                unsupportedTypeError(tableTypes[l.bad], l.bad)},
                               start \o l.tr \o r.tr \o last,
                               r.appender, Destroy("live"), r.types)
                ELSE NewReturn("appender", {}, start \o l.tr \o last,
                               "live", Destroy("live"), [i \in 1..Len(tableTypes) |-> "live"])

NextNew == \E fault \in NewFaults : NewAppender(fault)

SpecNew == InitNew /\ [][NextNew]_vars

----
\* Claims about NewAppender.

\* The positions of the trace at which engine call o was made.
positionsOf(o) == {k \in 1..Len(trace) : trace[k].op = o}

\* The first column of the table with an unsupported type (0: none).
firstUnsupported ==
    LET bad == {i \in 1..Len(tableTypes) : tableTypes[i] \in unsupportedTypeToStringMap}
    IN  IF bad = {} THEN 0 ELSE Min(bad)

\* C30: NewAppender returns either a usable appender (no error, appender and
\* one type per column live, every column active) or an error with every
\* native handle it created destroyed exactly once.  A foreign or closed
\* connection gives errInvalidCon or errClosedCon and no engine call; a failed
\* appender or table-description creation destroys the appender handle; an
\* unsupported column type destroys the collected types and the appender and
\* reports the 1-based index of that column; the table description is
\* destroyed, as the last call, on every path that created it.
C30_NewAppenderCleansUp ==
    ret.call = "NewAppender" =>
        /\ (driverConn = "foreign" => ret.err = {Err("errInvalidCon")} /\ trace = <<>>)
        /\ (driverConn = "closed" => ret.err = {Err("errClosedCon")} /\ trace = <<>>)
        /\ (trace = <<>> => appender = "none" /\ tableDesc = "none" /\ types = <<>>)
        /\ (ret.err = {} <=> ret.val = "appender")
        /\ (ret.err = {} =>
               /\ driverConn = "open"
               /\ appender = "live"
               /\ positionsOf("AppenderDestroy") = {}
               /\ Len(types) = Len(tableTypes)
               /\ \A i \in 1..Len(types) : types[i] = "live"
               /\ activeColumns = [i \in 1..Len(tableTypes) |-> TRUE]
               /\ firstUnsupported = 0)
        /\ (ret.err # {} =>
               /\ ret.val = "nil"
               /\ appender \in {"none", "destroyed"}
               /\ (appender = "destroyed" <=> positionsOf("AppenderCreateExt") # {})
               /\ Cardinality(positionsOf("AppenderDestroy")) = Cardinality(positionsOf("AppenderCreateExt"))
               /\ Len(types) = Cardinality(positionsOf("AppenderColumnType"))
               /\ \A i \in 1..Len(types) : types[i] = "destroyed"
               /\ Cardinality(positionsOf("DestroyLogicalType")) = Len(types))
        /\ (positionsOf("AppenderError") # {} =>
               /\ Err("errAppenderCreation") \in ret.err
               /\ positionsOf("TableDescriptionCreateExt") = {})
        /\ (positionsOf("TableDescriptionError") # {} =>
               /\ Err("errTableDescCreation") \in ret.err
               /\ positionsOf("AppenderColumnType") = {})
        /\ (positionsOf("AppenderColumnType") # {} /\ firstUnsupported # 0 =>
               /\ ret.err = {Err("errAppenderCreation"),
                             unsupportedTypeError(tableTypes[firstUnsupported], firstUnsupported)}
               /\ Len(types) = firstUnsupported)
        /\ tableDesc \in {"none", "destroyed"}
        /\ (tableDesc = "destroyed" <=> positionsOf("TableDescriptionCreateExt") # {})
        /\ (positionsOf("TableDescriptionCreateExt") # {} =>
               positionsOf("TableDescriptionDestroy") = {Len(trace)})

\* NewAppender refused a table whose second column has an unsupported type:
\* both collected types, the appender and the table description are destroyed.
C30_Witness ==
    /\ ret.call = "NewAppender"
    /\ firstUnsupported = 2
    /\ ret.err = {Err("errAppenderCreation"), unsupportedTypeError(tableTypes[2], 2)}
    /\ types = <<"destroyed", "destroyed">>
    /\ appender = "destroyed"
    /\ tableDesc = "destroyed"

\* NewAppender returned a usable appender for a two-column table.
C30_WitnessUsable ==
    /\ ret.call = "NewAppender"
    /\ ret.err = {}
    /\ appender = "live"
    /\ types = <<"live", "live">>
    /\ tableDesc = "destroyed"

\* The table-description creation failed: the appender handle is destroyed.
C30_WitnessTableDesc ==
    /\ ret.call = "NewAppender"
    /\ Err("errTableDescCreation") \in ret.err
    /\ appender = "destroyed"
    /\ tableDesc = "destroyed"

----
\* Claims about the errors of an append.

\* C31: every error an append returns on an open appender (the chunk
\* allocation, the encoding of a value or the active-column change failed)
\* holds errAppenderAppendRow, the identity of the operation, together with
\* its cause.
C31_AppendErrorsWrapped ==
    [][openAppendStep /\ ret'.err # {} =>
        /\ "errAppenderAppendRow" \in ret'.err
        /\ ret'.err # {"errAppenderAppendRow"}]_vars

----
\* Claims about the termination of executeBound.

\* The watcher of execution k exits in this step.
watcherExits(k) == bg[k] # "exited" /\ bg'[k] = "exited"

\* C32: with the watcher and the calling goroutine scheduled fairly, once
\* apiExecutePending has returned executeBound returns and the watcher of
\* that call has exited, whether the context was cancelled or not; bgDoneCh
\* and mainDoneCh are closed only while open, bgDoneCh by the watcher's last
\* step and mainDoneCh by the calling goroutine, and the calling goroutine
\* leaves its wait only when bgDoneCh is closed.
C32_ExecuteBoundReturns ==
    /\ [][\A k \in Execs :
            /\ (watcherExits(k) => bgDoneCh[k] = "open" /\ bgDoneCh'[k] = "closed")
            /\ (bgDoneCh'[k] = "closed" /\ bgDoneCh[k] # "closed" => watcherExits(k))
            /\ (bgDoneCh[k] = "closed" => bgDoneCh'[k] = "closed")
            /\ (mainDoneCh'[k] = "closed" /\ mainDoneCh[k] # "closed" =>
                   mainDoneCh[k] = "open" /\ pc = "closeMain" /\ execId = k)
            /\ (mainDoneCh[k] = "closed" => mainDoneCh'[k] = "closed")
            /\ (pc = "closeMain" /\ pc' # "closeMain" /\ execId = k =>
                   mainDoneCh[k] = "open" /\ mainDoneCh'[k] = "closed")
            /\ (pc = "waitBg" /\ pc' # "waitBg" /\ execId = k =>
                   bgDoneCh[k] = "closed" /\ bg[k] = "exited")]_vars
    /\ [](pc \in {"finish", "idle"} /\ execId > 0 => bg[execId] \in {"none", "exited"})
    /\ (pc = "closeMain") ~> (pc = "idle")

\* executeBound returned after a cancellation: the watcher took the
\* ctx.Done() branch, interrupted the connection during the call, closed
\* bgDoneCh and exited.
C32_Witness ==
    /\ pc = "idle"
    /\ execId = 1
    /\ ret.call \in {"ExecContext", "QueryContext", "ExecBound", "QueryBound"}
    /\ bg[1] = "exited"
    /\ bgDoneCh[1] = "closed"
    /\ mainDoneCh[1] = "closed"
    /\ \E i \in interrupts : i.by = 1

\* executeBound returned without a cancellation: the watcher took the
\* mainDoneCh branch.
C32_WitnessCompletion ==
    /\ pc = "idle"
    /\ execId = 1
    /\ ctxKind[1] = "none"
    /\ bg[1] = "exited"
    /\ bgDoneCh[1] = "closed"
    /\ interrupts = {}

----
\* Claims about the engine's column selection.

\* C33: whenever a row is buffered, the column selection the engine holds
\* (every column at first, then what the last clear and add-column calls
\* left) is the set of columns the bitmap marks active, also after appends
\* whose active-column change failed.
C33_SelectionIsBitmap ==
    chunksWithRows # {} => selected = activeIn(activeColumns)

\* An append that returned nil buffered a row under a bitmap that is not the
\* engine's selection: the change towards this bitmap had failed in an
\* earlier append, and this append found the bitmap already in place.
C33_WitnessOldSelection ==
    /\ ret.call \in appendCalls
    /\ ret.err = {}
    /\ ret.panic = ""
    /\ rowArg.n <= Len(columnNames)
    /\ flushOps \cap {trace[k].op : k \in 1..Len(trace)} = {}
    /\ chunksWithRows # {}
    /\ selected # activeIn(activeColumns)

----
\* Claims about the destroyed appender handle.

\* The engine calls that take the native appender handle.
appenderHandleOps ==
    {"AppendDataChunk", "AppenderFlush", "AppenderError", "AppenderClearColumns",
     "AppenderAddColumn", "AppenderDestroy"}

\* C34: once Close has destroyed the native appender handle, no call on the
\* appender (AppendRow, AppendRowMap, Flush, Close) makes an engine call that
\* takes the handle.
C34_NoCallOnDestroyedHandle ==
    [][appender = "destroyed" =>
        \A k \in 1..Len(trace') : trace'[k].op \notin appenderHandleOps]_vars

\* The appends and Close on a closed appender return their error without an
\* engine call.
C34_WitnessRefused ==
    /\ appender = "destroyed"
    /\ ret.call \in appendCalls
    /\ ret.err = {"errAppenderAppendAfterClose"}
    /\ trace = <<>>

----
\* Claims about the bound flag.

boundCalls == {"ExecBound", "QueryBound"}

\* C35: ExecBound and QueryBound called when the latest Bind call returned an
\* error start no execution: they return an error, which on an open
\* statement without an open result is errNotBound.
C35_ExecNeedsLatestBind ==
    [][ret.call = "Bind" /\ ret.err # {} /\ ret'.call \in boundCalls =>
        /\ execId' = execId
        /\ ret'.err # {}
        /\ (~closed /\ ~rows => ret'.err = {"errNotBound"})]_vars

\* ExecBound or QueryBound returned errNotBound right after a failed Bind
\* on a statement that was never bound.
C35_WitnessNotBound ==
    /\ ret.call \in boundCalls
    /\ ret.err = {"errNotBound"}
    /\ ~bound
    /\ ~closed
    /\ preparedStmt = "live"

----
\* Claims about the flags of a statement.

\* C36: in every state of a statement an open result (rows) implies that
\* the statement is bound, is not closed and has its prepared handle, and a
\* bound statement has a prepared handle (s.preparedStmt is not nil).
C36_FlagsConsistent ==
    /\ (rows => bound /\ ~closed /\ preparedStmt = "live")
    /\ (bound => preparedStmt # "nil")

\* A query returned its rows: the result is open on a bound, open statement.
C36_Witness ==
    /\ rows
    /\ bound
    /\ ~closed
    /\ preparedStmt = "live"
    /\ ret.call \in {"QueryContext", "QueryBound"}
    /\ ret.val = "rows"

\* A bound statement was closed: it is still bound and its handle, though
\* destroyed, is not nil.
C36_WitnessClosed ==
    /\ bound
    /\ closed
    /\ ~rows
    /\ preparedStmt = "destroyed"

----
\* Claims about the row counter.

\* C37: in every state of the appender rowCount lies in 0..Capacity and is
\* positive only with a chunk buffered; every SetValue call of the latest
\* call wrote a row below Capacity of the last buffered chunk, and every size
\* given to SetSize lies in 0..Capacity.
C37_RowCountInCapacity ==
    /\ rowCount \in 0..Capacity
    /\ (rowCount > 0 => chunks # <<>>)
    /\ \A k \in 1..Len(trace) :
          /\ (trace[k].op = "SetValue" =>
                 /\ trace[k].n \in 0..(Capacity - 1)
                 /\ chunks # <<>>
                 /\ trace[k].chunk = chunks[Len(chunks)].id)
          /\ (trace[k].op = "SetSize" => trace[k].n \in 0..Capacity)

\* An append filled the last row of a chunk: rowCount is Capacity and its
\* SetValue calls wrote row Capacity - 1.
C37_Witness ==
    /\ ret.call \in appendCalls
    /\ ret.err = {}
    /\ rowCount = Capacity
    /\ \E k \in 1..Len(trace) : trace[k].op = "SetValue" /\ trace[k].n = Capacity - 1

\* A flush handed a full chunk and a partly filled one to the engine.
C37_WitnessSetSize ==
    /\ ret.call = "Flush"
    /\ \E k \in 1..Len(trace) : trace[k].op = "SetSize" /\ trace[k].n = Capacity
    /\ \E k \in 1..Len(trace) : trace[k].op = "SetSize" /\ trace[k].n \in 1..(Capacity - 1)

\* ---------------------------------------------------------------------------
\* Claims about a failed append
\* ---------------------------------------------------------------------------

\* The rows of the buffered chunks cs when the last of them holds rc rows.
rowsIn(cs, rc) == IF cs = <<>> THEN 0 ELSE (Len(cs) - 1) * Capacity + rc

\* The rows of the chunks the engine took in the calls tr from position k on:
\* the size given to each chunk whose AppendDataChunk did not fail.
RECURSIVE handedRows(_, _)
handedRows(tr, k) ==
    IF k > Len(tr) THEN 0
    ELSE (IF /\ tr[k].op = "AppendDataChunk"
             /\ ~(k < Len(tr) /\ tr[k + 1].op = "AppenderError")
          THEN tr[k - 1].n ELSE 0) + handedRows(tr, k + 1)

\* The slot the next append writes unless it hands the buffer over first.
nextSlot ==
    IF newChunkNeeded(chunks, rowCount) THEN Slot(created + 1, 0)
    ELSE Slot(chunks[Len(chunks)].id, rowCount)

\* The latest call was an append on the open appender that returned an error.
appendFailed(r) == r.call \in {"AppendRow", "AppendRowMap"} /\ r.err # {} /\ r.panic = ""
\* The latest call was an append that returned nil.
appendSucceeded(r) == r.call \in {"AppendRow", "AppendRowMap"} /\ r.err = {} /\ r.panic = ""

\* An append on the open appender that returns an error adds no row: the rows
\* the engine took in the call plus the rows buffered after it are at most
\* the rows buffered before it.
failedAppendAddsNoRow ==
    ~aClosed /\ appendFailed(ret') =>
        handedRows(trace', 1) + rowsIn(chunks', rowCount') <= rowsIn(chunks, rowCount)

C38_WitnessHandOver ==
    /\ appendSucceeded(ret)
    /\ history.failed
    /\ rowCount = 1 /\ Len(chunks) = 1 /\ chunks[1].id = 2
    /\ indexesOf(trace, {"AppenderClearColumns"}) # {}
    /\ \E k \in indexesOf(trace, {"SetSize"}) : trace[k].chunk = 1 /\ trace[k].n = 0

\* ---------------------------------------------------------------------------
\* Claims about the hand-over of a chunk
\* ---------------------------------------------------------------------------

\* The positions in tr of the calls that hand a chunk to the engine.
handOvers(tr) == indexesOf(tr, {"AppendDataChunk"})

\* C39: whatever calls fail, a chunk is handed to the engine at most once and
\* never after its release: every chunk handed over in a call was buffered
\* and allocated before the call, is handed over once in it and before its
\* release, and is released and no longer buffered after the call; the
\* buffered chunks are distinct allocated chunks, and a released chunk is
\* never allocated again.
C39_ChunkHandedOnce ==
    /\ [](\A i \in 1..Len(chunks) :
            /\ chunkMem[chunks[i].id] = "live"
            /\ \A j \in 1..Len(chunks) : chunks[j].id = chunks[i].id => j = i)
    /\ [][/\ \A k \in handOvers(trace') :
               /\ trace'[k].chunk \in idsOf(chunks)
               /\ chunkMem[trace'[k].chunk] = "live"
               /\ \A l \in 1..Len(trace') :
                     trace'[l].chunk = trace'[k].chunk =>
                         /\ (trace'[l].op = "AppendDataChunk" => l = k)
                         /\ (trace'[l].op = "close" => k < l)
               /\ chunkMem'[trace'[k].chunk] = "destroyed"
               /\ trace'[k].chunk \notin idsOf(chunks')
           /\ \A c \in 1..MaxChunks :
               chunkMem[c] \notin {"none", "live"} => chunkMem'[c] # "live"]_vars

\* C39 witness: after a call had failed at SetSize or at the engine's append
\* and chunk 1 was released, a later flush handed over chunk 2 and released it.
C39_Witness ==
    /\ ret.call \in {"Flush", "Close"}
    /\ history.failed
    /\ chunkMem[1] = "destroyed" /\ chunkMem[2] = "destroyed"
    /\ \E k \in handOvers(trace) : trace[k].chunk = 2
    /\ \A k \in handOvers(trace) : trace[k].chunk # 1

\* C39 witness: a flush failed at the engine's append of the first of two
\* buffered chunks; the second was released without being handed over.
C39_WitnessNotHanded ==
    /\ ret.call = "Flush"
    /\ "duckdbErr" \in ret.err
    /\ {trace[k].chunk : k \in handOvers(trace)} = {1}
    /\ chunkMem[2] = "destroyed"

\* ---------------------------------------------------------------------------
\* Claims about a row with too many values
\* ---------------------------------------------------------------------------

\* This step is AppendRow on the open appender with more values than the
\* table has columns.
tooManyValues == ret'.call = "AppendRow" /\ ~aClosed /\ rowArg'.n > Len(columnNames)

\* C40: AppendRow on an open appender with more values than the table has
\* columns returns a column-count error, without a panic, and leaves the
\* buffered chunks, the row counter and the active-columns bitmap as they were.
C40_TooManyValuesRefused ==
    [][tooManyValues =>
          /\ ret'.panic = ""
          /\ "columnCountError" \in ret'.err
          /\ UNCHANGED <<chunks, rowCount, activeColumns>>]_vars

\* C40 witness: AppendRow with a value too many panicked on the index past
\* the bitmap after it had activated a column that was inactive.
C40_WitnessPanic ==
    /\ ret.call = "AppendRow"
    /\ ret.panic = "IndexOutOfRange"
    /\ rowArg.n = Len(columnNames) + 1
    /\ \A i \in 1..Len(columnNames) : activeColumns[i]
    /\ selected # [i \in 1..Len(columnNames) |-> i]
    /\ ~aClosed

====
